---- MODULE Spec2Model ----
(***************************************************************************)
(* A model of the API test framework's execution core:                     *)
(*   - the Test Executor (internal/testrunner/httpexpect_executor.go):     *)
(*     ExecuteTest and executeAssertion, as operators over a response and  *)
(*     a test specification;                                               *)
(*   - the Run Orchestrator (services.TestRunService): StartTestRun, the   *)
(*     waiting goroutine with its 5-minute ceiling, the batch goroutine    *)
(*     running executeTests, and the test_runs / test_results tables;      *)
(*   - the Command Parser (internal/utils/curl_parser.go):                 *)
(*     ParseCurlCommand as an operator over the command text.              *)
(*                                                                         *)
(* Specifications: Spec (one run), SpecFair (one run under a fair          *)
(* scheduler), SpecConcurrent (two runs side by side), SpecExec (one call  *)
(* of ExecuteTest), SpecEval (one call of executeAssertion), SpecCurl (one *)
(* call of ParseCurlCommand).                                              *)
(*                                                                         *)
(* Strings the code inspects character by character (assertion paths,     *)
(* JSON object keys, JSON strings) are sequences of one-character strings. *)
(* Timestamps are abstracted to the name of the writer that took them.     *)
(***************************************************************************)
EXTENDS Integers, Sequences, FiniteSets, TLC

VARIABLES
    \* ---- Run Orchestrator (one entry per run id) ----
    callerPc,     \* position of the StartTestRun call
    local,        \* the testRun struct StartTestRun builds and returns
    returned,     \* what StartTestRun handed back to its caller
    cases,        \* the testCases slice the query returned
    row,          \* the run's row of table test_runs
    results,      \* the rows of table test_results, in insertion order
    waiterPc,     \* the outer goroutine: select on done / time.After
    batchPc,      \* the inner goroutine: executeTests, then done <- true
    idx,          \* executeTests' loop index (0-based count of finished iterations)
    passedTests,  \* executeTests' local counter
    failedTests,  \* executeTests' local counter
    done,         \* the buffered channel done: number of values in it
    execLog,      \* history: one entry per loop iteration, what it did
    crashed,      \* a panic left a goroutine unrecovered (process death)
    \* ---- Test Executor called on its own ----
    xPc,          \* position of the ExecuteTest call
    xSpec,        \* its argument
    xResp,        \* what the HTTP round trip yields
    xOut,         \* what the call produced
    \* ---- Assertion Evaluator called on its own ----
    ePc,          \* position of the executeAssertion call
    eMap,         \* the assertion map it is given
    eResp,        \* the response it is given
    eOut,         \* what the call produced
    \* ---- Command Parser ----
    curlPc,       \* position of the ParseCurlCommand call
    curlIn,       \* its argument curlCmd, the command text
    curlOut       \* what the call produced

vars == <<callerPc, local, returned, cases, row, results, waiterPc, batchPc,
          idx, passedTests, failedTests, done, execLog, crashed,
          xPc, xSpec, xResp, xOut, ePc, eMap, eResp, eOut,
          curlPc, curlIn, curlOut>>

orchVars == <<callerPc, local, returned, cases, row, results, waiterPc, batchPc,
              idx, passedTests, failedTests, done, execLog, crashed>>

execVars == <<xPc, xSpec, xResp, xOut>>

evalVars == <<ePc, eMap, eResp, eOut>>

curlVars == <<curlPc, curlIn, curlOut>>

(***************************************************************************)
(* Bounds of the model.                                                    *)
(***************************************************************************)
\* the longest testCases slice a run is given
MaxCases == 3
\* the longest assertion list of a test specification run on its own
MaxAsserts == 2

(***************************************************************************)
(* JSON values (Go's interface{} after json.Unmarshal).                    *)
(***************************************************************************)
JNull == [k |-> "null"]
JBool(b) == [k |-> "bool", b |-> b]
JNum(n) == [k |-> "num", n |-> n]
JStr(s) == [k |-> "str", s |-> s]
JArr(items) == [k |-> "arr", items |-> items]
JObj(fields) == [k |-> "obj", fields |-> fields]

\* the empty JSON object {}
EmptyFields == [key \in {} |-> JNull]

Digits == {"0", "1", "2", "3", "4", "5", "6", "7", "8", "9"}

DigitVal(c) ==
    CASE c = "0" -> 0 [] c = "1" -> 1 [] c = "2" -> 2 [] c = "3" -> 3
      [] c = "4" -> 4 [] c = "5" -> 5 [] c = "6" -> 6 [] c = "7" -> 7
      [] c = "8" -> 8 [] OTHER -> 9

IsDigits(seg) == seg # <<>> /\ \A i \in 1..Len(seg) : seg[i] \in Digits

RECURSIVE ToNat(_)
ToNat(seg) ==
    IF seg = <<>> THEN 0
    ELSE 10 * ToNat(SubSeq(seg, 1, Len(seg) - 1)) + DigitVal(seg[Len(seg)])

(***************************************************************************)
(* strings.ReplaceAll for a one-character pattern.                         *)
(***************************************************************************)
RECURSIVE ReplaceAll(_, _, _)
ReplaceAll(s, old, new) ==
    IF s = <<>> THEN <<>>
    ELSE (IF s[1] = old THEN new ELSE <<s[1]>>) \o ReplaceAll(Tail(s), old, new)

(***************************************************************************)
(* gjson.Get on a decoded document, for paths made of '.'-separated keys   *)
(* and array indexes (the path alphabet of the model holds none of gjson's *)
(* wildcard, query, pipe, modifier or escape characters).                  *)
(***************************************************************************)
RECURSIVE SplitDots(_, _)
SplitDots(s, cur) ==
    IF s = <<>> THEN <<cur>>
    ELSE IF s[1] = "." THEN <<cur>> \o SplitDots(Tail(s), <<>>)
    ELSE SplitDots(Tail(s), Append(cur, s[1]))

\* a gjson.Result: whether the path matched, and the value found
NotFound == [exists |-> FALSE, v |-> JNull]
Found(v) == [exists |-> TRUE, v |-> v]

RECURSIVE GetSegs(_, _)
GetSegs(v, segs) ==
    IF segs = <<>> THEN Found(v)
    ELSE IF v.k = "obj"
        THEN IF segs[1] \in DOMAIN v.fields
             THEN GetSegs(v.fields[segs[1]], Tail(segs))
             ELSE NotFound
    ELSE IF v.k = "arr"
        THEN IF IsDigits(segs[1]) /\ ToNat(segs[1]) < Len(v.items)
             THEN GetSegs(v.items[ToNat(segs[1]) + 1], Tail(segs))
             ELSE NotFound
    ELSE NotFound

\* gjson.Get(json, path) where json is the text of document doc
GjsonGet(doc, path) == GetSegs(doc, SplitDots(path, <<>>))

\* gjson.Get("", path): no document at all
GjsonGetEmpty(path) == NotFound

\* Result.Exists(): Type != Null || len(Raw) != 0; a matched null has Raw "null"
ResultExists(res) == res.exists

\* Result.Value(): nil for Null (matched or not), else the decoded value
ResultValue(res) == IF res.exists THEN res.v ELSE JNull

(***************************************************************************)
(* Text forms: Result.String() and the raw JSON text of a value            *)
(* (encoding/json writes object keys in sorted order).                     *)
(***************************************************************************)
Alphabet ==
    <<"$", "-", ".", "0", "1", "2", "3", "4", "5", "6", "7", "8", "9",
      "C", "T", "[", "]", "_", "a", "b", "c", "d", "e", "f", "g", "h",
      "i", "j", "k", "l", "m", "n", "o", "p", "q", "r", "s", "t", "u",
      "v", "w", "x", "y", "z">>

CharRank(c) ==
    IF \E i \in 1..Len(Alphabet) : Alphabet[i] = c
    THEN CHOOSE i \in 1..Len(Alphabet) : Alphabet[i] = c
    ELSE 0

RECURSIVE LexLess(_, _)
LexLess(a, b) ==
    IF a = <<>> THEN b # <<>>
    ELSE IF b = <<>> THEN FALSE
    ELSE IF a[1] = b[1] THEN LexLess(Tail(a), Tail(b))
    ELSE CharRank(a[1]) < CharRank(b[1])

RECURSIVE SortedKeys(_)
SortedKeys(keys) ==
    IF keys = {} THEN <<>>
    ELSE LET first == CHOOSE x \in keys : \A y \in keys \ {x} : LexLess(x, y)
         IN <<first>> \o SortedKeys(keys \ {first})

DigitChar(d) == CHOOSE c \in Digits : DigitVal(c) = d

RECURSIVE NatText(_)
NatText(n) ==
    IF n < 10 THEN <<DigitChar(n)>>
    ELSE NatText(n \div 10) \o <<DigitChar(n % 10)>>

RECURSIVE RawText(_)
RECURSIVE RawItems(_)
RECURSIVE RawFields(_, _)
RawText(v) ==
    CASE v.k = "null" -> <<"n", "u", "l", "l">>
      [] v.k = "bool" -> IF v.b THEN <<"t", "r", "u", "e">>
                         ELSE <<"f", "a", "l", "s", "e">>
      [] v.k = "num" -> NatText(v.n)
      [] v.k = "str" -> <<"\"">> \o v.s \o <<"\"">>
      [] v.k = "arr" -> <<"[">> \o RawItems(v.items) \o <<"]">>
      [] OTHER -> <<"{">> \o RawFields(v.fields, SortedKeys(DOMAIN v.fields)) \o <<"}">>
RawItems(items) ==
    IF items = <<>> THEN <<>>
    ELSE RawText(items[1])
         \o (IF Len(items) > 1 THEN <<",">> ELSE <<>>) \o RawItems(Tail(items))
RawFields(fields, keys) ==
    IF keys = <<>> THEN <<>>
    ELSE <<"\"">> \o keys[1] \o <<"\"", ":">> \o RawText(fields[keys[1]])
         \o (IF Len(keys) > 1 THEN <<",">> ELSE <<>>) \o RawFields(fields, Tail(keys))

\* Result.String(): "" for Null, the string itself for String, else the raw text
ResultString(res) ==
    IF ~res.exists \/ res.v.k = "null" THEN <<>>
    ELSE IF res.v.k = "str" THEN res.v.s
    ELSE RawText(res.v)

(***************************************************************************)
(* Go's == on two interface{} values: false when the dynamic types differ, *)
(* a run-time panic when both hold a slice or both hold a map.             *)
(***************************************************************************)
GoEqPanics(a, b) == a.k = b.k /\ a.k \in {"arr", "obj"}

GoEq(a, b) == a.k = b.k /\ a = b

(***************************************************************************)
(* The response of an HTTP round trip, and the envelope built from it.     *)
(*   transport: "ok" | "error"   (error: no response at all)               *)
(*   json:      whether the body decodes as JSON (resp.JSON() succeeds)    *)
(***************************************************************************)
KeyStatusCode == <<"s", "t", "a", "t", "u", "s", "_", "c", "o", "d", "e">>
KeyHeaders == <<"h", "e", "a", "d", "e", "r", "s">>
KeyBody == <<"b", "o", "d", "y">>
KeyContentType == <<"C", "o", "n", "t", "e", "n", "t", "-", "T", "y", "p", "e">>

PathHeaders == KeyHeaders
PathHeadersContentType == KeyHeaders \o <<".">> \o KeyContentType

\* map[string]interface{}{"status_code": ..., "headers": ..., "body": ...}
Envelope(resp) ==
    JObj([key \in {KeyStatusCode, KeyHeaders, KeyBody} |->
            IF key = KeyStatusCode THEN JNum(resp.status)
            ELSE IF key = KeyHeaders THEN resp.headers
            ELSE resp.body])

(***************************************************************************)
(* Messages: the format string and its arguments.                          *)
(***************************************************************************)
NoMsg == [m |-> ""]
MsgStatusCode(e, a) == [m |-> "Expected status code %d, got %d", e |-> e, a |-> a]
MsgNotExist(p) == [m |-> "JSON path '%s' does not exist", p |-> p]
MsgEqualsPath(e, a, p) ==
    [m |-> "Expected '%v', got '%v' for path '%s'", ev |-> e, av |-> a, p |-> p]
MsgEquals(e, a) == [m |-> "Expected '%v', got '%v'", ev |-> e, av |-> a]
MsgContains(e, a) == [m |-> "Expected to contain '%s', got '%s'", es |-> e, as |-> a]
MsgNotImplemented == [m |-> "Response time assertion not implemented yet"]
MsgUnknownType(t) == [m |-> "Unknown assertion type: %s", t |-> t]
MsgHTTPFailed(code) == [m |-> "HTTP request failed with status %d", code |-> code]
MsgNoAssertions == [m |-> "No assertions found"]
MsgParseError == [m |-> "json.Unmarshal error"]

(***************************************************************************)
(* models.AssertionSpec and the map ExecuteTest gets for it by marshalling *)
(* the specification and unmarshalling the text again: "type" and          *)
(* "expected" are always written, "path" and "matcher" only when not empty *)
(* (omitempty); the struct has no field named "value".                     *)
(***************************************************************************)
AssertionSpec(type, path, matcher, expected) ==
    [type |-> type, path |-> path, matcher |-> matcher, expected |-> expected]

AssertionMap(a) ==
    LET base == [type |-> a.type, expected |-> a.expected]
        withPath == IF a.path # <<>> THEN base @@ [path |-> a.path] ELSE base
    IN IF a.matcher # "" THEN withPath @@ [matcher |-> a.matcher] ELSE withPath

(***************************************************************************)
(* executeAssertion.  The outcome is [panic, res]: res is the              *)
(* AssertionResult returned, panic says the call did not return.           *)
(***************************************************************************)
Nil == JNull
GoInt(n) == [k |-> "int", n |-> n]

NewAssertionResult(type) ==
    [type |-> type, path |-> <<>>, matcher |-> "", expected |-> Nil,
     actual |-> Nil, passed |-> TRUE, message |-> NoMsg]

Returns(res) == [panic |-> FALSE, res |-> res]
Panics(res) == [panic |-> TRUE, res |-> res]

\* a variant of NormalizePath that leaves the closing brackets in
NormalizePath_KeepsClosing(path) ==
    IF Len(path) > 0 /\ path[1] = "["
    THEN KeyBody \o ReplaceAll(path, "[", <<".">>)
    ELSE path

\* lines 268-272 / 356-360: the path the exists and equals assertions resolve
NormalizePath(path) ==
    IF Len(path) > 0 /\ path[1] = "["
    THEN KeyBody \o ReplaceAll(ReplaceAll(path, "[", <<".">>), "]", <<>>)
    ELSE path

\* a variant of AssertStatusCode whose leniency also runs the other way
AssertStatusCode_LenientBothWays(resp, m, result) ==
    IF "value" \in DOMAIN m /\ m.value.k = "num"
    THEN LET expected == m.value.n
             actual == resp.status
             passed == actual = expected \/ ({expected, actual} = {200, 201})
         IN Returns([result EXCEPT !.expected = GoInt(expected),
                                   !.actual = GoInt(actual),
                                   !.passed = passed,
                                   !.message = IF passed THEN NoMsg
                                               ELSE MsgStatusCode(expected, actual)])
    ELSE Returns(result)

\* case "status_code"
AssertStatusCode(resp, m, result) ==
    IF "value" \in DOMAIN m /\ m.value.k = "num"
    THEN LET expected == m.value.n
             actual == resp.status
             passed == actual = expected \/ (expected = 200 /\ actual = 201)
         IN Returns([result EXCEPT !.expected = GoInt(expected),
                                   !.actual = GoInt(actual),
                                   !.passed = passed,
                                   !.message = IF passed THEN NoMsg
                                               ELSE MsgStatusCode(expected, actual)])
    ELSE Returns(result)

\* case "exists"
AssertExists(resp, m, result) ==
    IF "path" \in DOMAIN m
    THEN LET fullPath == NormalizePath(m.path)
             value == GjsonGet(Envelope(resp), fullPath)
             passed == ResultExists(value)
         IN Returns([result EXCEPT !.path = fullPath,
                                   !.matcher = "exists",
                                   !.passed = passed,
                                   !.message = IF passed THEN NoMsg
                                               ELSE MsgNotExist(fullPath)])
    ELSE Returns(result)

\* case "equals"
AssertEquals(resp, m, result) ==
    IF "path" \in DOMAIN m
    THEN LET fullPath == NormalizePath(m.path)
             value == GjsonGet(Envelope(resp), fullPath)
             located == [result EXCEPT !.path = fullPath, !.matcher = "equals"]
         IN IF "value" \in DOMAIN m
            THEN LET expected == m.value
                     actual == ResultValue(value)
                     withValues == [located EXCEPT !.expected = expected,
                                                   !.actual = actual]
                 IN IF GoEqPanics(actual, expected) THEN Panics(withValues)
                    ELSE LET passed == GoEq(actual, expected)
                         IN Returns([withValues EXCEPT
                                !.passed = passed,
                                !.message = IF passed THEN NoMsg
                                            ELSE MsgEqualsPath(expected, actual, fullPath)])
            ELSE Returns(located)
    ELSE Returns(result)

\* case "json_path"
AssertJSONPath(resp, m, result) ==
    IF "path" \in DOMAIN m
    THEN IF "matcher" \notin DOMAIN m THEN Panics(result)
         ELSE
         LET path == m.path
             matcher == m.matcher
             value == IF resp.body.k = "null" THEN GjsonGetEmpty(path)
                      ELSE GjsonGet(resp.body, path)
             located == [result EXCEPT !.path = path, !.matcher = matcher]
         IN CASE matcher = "exists" ->
                   LET passed == ResultExists(value)
                   IN Returns([located EXCEPT
                          !.passed = passed,
                          !.message = IF passed THEN NoMsg ELSE MsgNotExist(path)])
              [] matcher = "equals" ->
                   IF "expected" \in DOMAIN m
                   THEN LET expected == m.expected
                            actual == ResultValue(value)
                            withValues == [located EXCEPT !.expected = expected,
                                                          !.actual = actual]
                        IN IF GoEqPanics(actual, expected) THEN Panics(withValues)
                           ELSE LET passed == GoEq(actual, expected)
                                IN Returns([withValues EXCEPT
                                       !.passed = passed,
                                       !.message = IF passed THEN NoMsg
                                                   ELSE MsgEquals(expected, actual)])
                   ELSE Returns(located)
              [] matcher = "contains" ->
                   IF "expected" \in DOMAIN m /\ m.expected.k = "str"
                   THEN LET expected == m.expected.s
                            actual == ResultString(value)
                            passed == actual = expected
                        IN Returns([located EXCEPT
                               !.expected = JStr(expected),
                               !.actual = JStr(actual),
                               !.passed = passed,
                               !.message = IF passed THEN NoMsg
                                           ELSE MsgContains(expected, actual)])
                   ELSE Returns(located)
              [] OTHER -> Returns(located)
    ELSE Returns(result)

\* case "response_time"
AssertResponseTime(resp, m, result) ==
    IF "expected" \in DOMAIN m /\ m.expected.k = "num"
    THEN Returns([result EXCEPT !.expected = GoInt(m.expected.n),
                                !.message = MsgNotImplemented,
                                !.passed = TRUE])
    ELSE Returns(result)

\* default
AssertUnknown(resp, m, result) ==
    Returns([result EXCEPT !.passed = FALSE, !.message = MsgUnknownType(result.type)])

\* a variant of executeAssertion that reports a json_path assertion without
\* matcher as failed
executeAssertion_MatcherChecked(resp, m) ==
    LET result == NewAssertionResult(m.type)
    IN CASE m.type = "status_code" -> AssertStatusCode(resp, m, result)
         [] m.type = "exists" -> AssertExists(resp, m, result)
         [] m.type = "equals" -> AssertEquals(resp, m, result)
         [] m.type = "json_path" /\ "matcher" \notin DOMAIN m ->
               Returns([result EXCEPT !.passed = FALSE])
         [] m.type = "json_path" /\ "matcher" \in DOMAIN m ->
               AssertJSONPath(resp, m, result)
         [] m.type = "response_time" -> AssertResponseTime(resp, m, result)
         [] OTHER -> AssertUnknown(resp, m, result)

executeAssertion(resp, m) ==
    LET result == NewAssertionResult(m.type)
    IN CASE m.type = "status_code" -> AssertStatusCode(resp, m, result)
         [] m.type = "exists" -> AssertExists(resp, m, result)
         [] m.type = "equals" -> AssertEquals(resp, m, result)
         [] m.type = "json_path" -> AssertJSONPath(resp, m, result)
         [] m.type = "response_time" -> AssertResponseTime(resp, m, result)
         [] OTHER -> AssertUnknown(resp, m, result)

(***************************************************************************)
(* models.TestSpec as ExecuteTest uses it: the assertion list, and whether *)
(* the slice is nil (marshalled as null) or a list (possibly empty).  The  *)
(* request fields only shape the outgoing call, whose outcome is resp.     *)
(***************************************************************************)
TestSpec(assertions) == [nilAssertions |-> FALSE, assertions |-> assertions]
TestSpecNoAssertions == [nilAssertions |-> TRUE, assertions |-> <<>>]

\* TestResult.ResponseData: "" or the marshalled envelope
NoResponseData == [k |-> "empty"]
EnvelopeData(resp) == [k |-> "envelope", env |-> Envelope(resp)]

\* a variant of IsHeaderPath that knows the path "headers" only
IsHeaderPath_OnlyHeaders(m) == "path" \in DOMAIN m /\ m.path = PathHeaders

\* line 189: the assertions ExecuteTest passes over
IsHeaderPath(m) ==
    "path" \in DOMAIN m /\ (m.path = PathHeadersContentType \/ m.path = PathHeaders)

NewTestResult ==
    [kind |-> "return", status |-> "PASSED", errorMessage |-> NoMsg,
     responseData |-> NoResponseData, assertionResults |-> <<>>,
     duration |-> "unset"]

\* a variant of RunAssertions in which a passing assertion resets the status
RECURSIVE RunAssertions_LastWins(_, _, _, _)
RunAssertions_LastWins(resp, maps, i, result) ==
    IF i > Len(maps) THEN result
    ELSE IF IsHeaderPath(maps[i]) THEN RunAssertions_LastWins(resp, maps, i + 1, result)
    ELSE LET out == executeAssertion(resp, maps[i])
         IN IF out.panic THEN [result EXCEPT !.kind = "panic"]
            ELSE RunAssertions_LastWins(resp, maps, i + 1,
                     [result EXCEPT
                         !.assertionResults = Append(@, out.res),
                         !.status = IF out.res.passed THEN "PASSED" ELSE "FAILED",
                         !.errorMessage = out.res.message])

\* a variant of RunAssertions that keeps the message of the first failure
RECURSIVE RunAssertions_FirstMessage(_, _, _, _)
RunAssertions_FirstMessage(resp, maps, i, result) ==
    IF i > Len(maps) THEN result
    ELSE IF IsHeaderPath(maps[i]) THEN RunAssertions_FirstMessage(resp, maps, i + 1, result)
    ELSE LET out == executeAssertion(resp, maps[i])
         IN IF out.panic THEN [result EXCEPT !.kind = "panic"]
            ELSE LET appended == [result EXCEPT
                         !.assertionResults = Append(@, out.res)]
                     next == IF ~out.res.passed /\ result.status # "FAILED"
                             THEN [appended EXCEPT !.status = "FAILED",
                                                   !.errorMessage = out.res.message]
                             ELSE IF ~out.res.passed
                             THEN [appended EXCEPT !.status = "FAILED"]
                             ELSE appended
                 IN RunAssertions_FirstMessage(resp, maps, i + 1, next)

\* lines 182-200: the loop over the assertions, from the i-th on
RECURSIVE RunAssertions(_, _, _, _)
RunAssertions(resp, maps, i, result) ==
    IF i > Len(maps) THEN result
    ELSE IF IsHeaderPath(maps[i]) THEN RunAssertions(resp, maps, i + 1, result)
    ELSE LET out == executeAssertion(resp, maps[i])
         IN IF out.panic THEN [result EXCEPT !.kind = "panic"]
            ELSE LET appended == [result EXCEPT
                         !.assertionResults = Append(@, out.res)]
                     next == IF ~out.res.passed
                             THEN [appended EXCEPT !.status = "FAILED",
                                                   !.errorMessage = out.res.message]
                             ELSE appended
                 IN RunAssertions(resp, maps, i + 1, next)

\* a variant of RequestFailed with the comparison off by one
RequestFailed_Above400(resp) == resp.status > 400

\* line 145: the response counts as a failed request
RequestFailed(resp) == resp.status >= 400

\* ExecuteTest.  kind = "panic": the call did not return (the reporter of
\* line 79 is built on a nil testing handle, so a failure httpexpect reports
\* -- the round trip failing at line 142, the body not decoding as JSON at
\* line 156 -- ends in a nil dereference).
ExecuteTest(testSpec, resp) ==
    LET result == NewTestResult
    IN IF resp.transport = "error" THEN [result EXCEPT !.kind = "panic"]
       ELSE IF RequestFailed(resp)
       THEN [result EXCEPT !.status = "FAILED",
                           !.errorMessage = MsgHTTPFailed(resp.status),
                           !.duration = "measured"]
       ELSE IF ~resp.json THEN [result EXCEPT !.kind = "panic"]
       ELSE LET stored == [result EXCEPT !.responseData = EnvelopeData(resp)]
            IN IF testSpec.nilAssertions
               THEN [stored EXCEPT !.status = "FAILED",
                                   !.errorMessage = MsgNoAssertions,
                                   !.duration = "measured"]
               ELSE LET maps == [i \in 1..Len(testSpec.assertions) |->
                                    AssertionMap(testSpec.assertions[i])]
                        looped == RunAssertions(resp, maps, 1, stored)
                    IN IF looped.kind = "panic" THEN looped
                       ELSE [looped EXCEPT !.duration = "measured"]

(***************************************************************************)
(* The inputs the model draws from.                                        *)
(***************************************************************************)
KeyId == <<"i", "d">>
KeyName == <<"n", "a", "m", "e">>
PathBodyId == KeyBody \o <<".">> \o KeyId
PathBodyMissing == KeyBody \o <<".", "z">>
PathIndexedId == <<"[", "0", "]", ".">> \o KeyId

\* {"id": 1, "name": null}
BodyObject == JObj((KeyId :> JNum(1)) @@ (KeyName :> JNull))
\* [{"id": 1, "name": null}]
BodyArray == JArr(<<BodyObject>>)
\* {"id": 1, "name": "xy"}
BodyText == JObj((KeyId :> JNum(1)) @@ (KeyName :> JStr(<<"x", "y">>)))

NoHeaders == JObj(EmptyFields)

TransportError ==
    [transport |-> "error", status |-> 0, json |-> FALSE,
     headers |-> NoHeaders, body |-> JNull]

JSONResponse(status, body) ==
    [transport |-> "ok", status |-> status, json |-> TRUE,
     headers |-> NoHeaders, body |-> body]

NonJSONResponse(status) ==
    [transport |-> "ok", status |-> status, json |-> FALSE,
     headers |-> NoHeaders, body |-> JNull]

ExecStatuses == {200, 201, 399, 400, 404}

ExecResponses ==
    {TransportError}
    \cup {JSONResponse(st, b) : st \in ExecStatuses, b \in {BodyObject, BodyArray, BodyText, JNull}}
    \cup {NonJSONResponse(st) : st \in {200, 404}}

ExecAssertions ==
    { AssertionSpec("status_code", <<>>, "", JNum(200)),
      AssertionSpec("status_code", <<>>, "", JNum(404)),
      AssertionSpec("exists", PathBodyId, "", JNull),
      AssertionSpec("exists", PathBodyMissing, "", JNull),
      AssertionSpec("exists", PathIndexedId, "", JNull),
      AssertionSpec("exists", PathHeaders, "", JNull),
      AssertionSpec("equals", PathHeadersContentType, "", JStr(<<"x">>)),
      AssertionSpec("equals", PathBodyId, "", JNum(2)),
      AssertionSpec("json_path", KeyId, "exists", JNull),
      AssertionSpec("json_path", KeyId, "equals", JNum(2)),
      AssertionSpec("json_path", KeyName, "contains", JStr(<<"x">>)),
      AssertionSpec("json_path", KeyId, "", JNull),
      AssertionSpec("json_path", PathHeaders, "", JNull),
      AssertionSpec("response_time", <<>>, "", JNum(2000)),
      AssertionSpec("regex", KeyId, "", JStr(<<"x">>)) }

SeqsUpTo(S, n) == UNION {[1..len -> S] : len \in 0..n}

ExecSpecs ==
    {TestSpecNoAssertions} \cup {TestSpec(as) : as \in SeqsUpTo(ExecAssertions, MaxAsserts)}

(***************************************************************************)
(* ExecuteTest called on its own: one call on an arbitrary specification   *)
(* and an arbitrary outcome of the round trip.                             *)
(***************************************************************************)
RunIds == {"run1", "run2"}

NoOut == [kind |-> "none"]

InitOrchOff ==
    /\ callerPc = [r \in RunIds |-> "off"]
    /\ local = [r \in RunIds |-> [status |-> "none"]]
    /\ returned = [r \in RunIds |-> [status |-> "none"]]
    /\ cases = [r \in RunIds |-> <<>>]
    /\ row = [r \in RunIds |-> [status |-> "none"]]
    /\ results = <<>>
    /\ waiterPc = [r \in RunIds |-> "none"]
    /\ batchPc = [r \in RunIds |-> "none"]
    /\ idx = [r \in RunIds |-> 0]
    /\ passedTests = [r \in RunIds |-> 0]
    /\ failedTests = [r \in RunIds |-> 0]
    /\ done = [r \in RunIds |-> 0]
    /\ execLog = [r \in RunIds |-> <<>>]
    /\ crashed = FALSE

InitExecOff ==
    /\ xPc = "off"
    /\ xSpec = TestSpecNoAssertions
    /\ xResp = TransportError
    /\ xOut = NoOut

\* no executeAssertion call of its own
InitEvalOff ==
    /\ ePc = "off"
    /\ eMap = [type |-> "none"]
    /\ eResp = TransportError
    /\ eOut = NoOut

\* no ParseCurlCommand call
InitCurlOff ==
    /\ curlPc = "off"
    /\ curlIn = <<>>
    /\ curlOut = NoOut

InitExec ==
    /\ InitOrchOff
    /\ InitEvalOff
    /\ InitCurlOff
    /\ xPc = "ready"
    /\ xSpec \in ExecSpecs
    /\ xResp \in ExecResponses
    /\ xOut = NoOut

CallExecuteTest ==
    /\ xPc = "ready"
    /\ xOut' = ExecuteTest(xSpec, xResp)
    /\ xPc' = IF xOut'.kind = "panic" THEN "panicked" ELSE "returned"
    /\ UNCHANGED <<xSpec, xResp>>
    /\ UNCHANGED <<orchVars, evalVars, curlVars>>

NextExec == CallExecuteTest

SpecExec == InitExec /\ [][NextExec]_vars

(***************************************************************************)
(* executeAssertion called on its own: one call on an arbitrary assertion  *)
(* map and a response that ExecuteTest hands to it (a JSON body, a status  *)
(* below 400).  The maps include the key "value", which the evaluator      *)
(* reads for status_code and equals.                                       *)
(***************************************************************************)
\* the longest assertion path drawn character by character
MaxPathLen == 4

PathAlphabet == {"[", "]", ".", "0", "a"}

EvalPaths == SeqsUpTo(PathAlphabet, MaxPathLen)

PathBodyName == KeyBody \o <<".">> \o KeyName

NamedPaths == {PathBodyId, PathBodyName, PathBodyMissing, PathIndexedId, KeyId}

EvalExpectedStatuses == {200, 201, 204, 404}

EvalActualStatuses == {200, 201, 204}

EvalValues == {JNull, JNum(1), JNum(2), JStr(<<"1">>), JArr(<<>>), JObj(EmptyFields)}

\* map[string]interface{} values with the keys the evaluator looks at
EvalMaps ==
    {[type |-> "status_code", value |-> JNum(e)] : e \in EvalExpectedStatuses}
    \cup {[type |-> "status_code", value |-> JStr(<<"2", "0", "0">>)],
          [type |-> "status_code", expected |-> JNum(404)]}
    \cup {[type |-> t, path |-> p] : t \in {"exists", "equals"},
                                    p \in EvalPaths \cup NamedPaths}
    \cup {[type |-> "equals", path |-> p, value |-> v] : p \in NamedPaths, v \in EvalValues}
    \cup {[type |-> "json_path", path |-> KeyId, matcher |-> mt, expected |-> JNum(1)] :
              mt \in {"exists", "equals", "contains"}}
    \cup {[type |-> "response_time", expected |-> JNum(2000)],
          [type |-> "regex", expected |-> JNull]}

EvalResponses ==
    {JSONResponse(st, b) : st \in EvalActualStatuses, b \in {BodyObject, BodyArray}}

InitEval ==
    /\ InitOrchOff
    /\ InitExecOff
    /\ InitCurlOff
    /\ ePc = "ready"
    /\ eMap \in EvalMaps
    /\ eResp \in EvalResponses
    /\ eOut = NoOut

CallExecuteAssertion ==
    /\ ePc = "ready"
    /\ eOut' = executeAssertion(eResp, eMap)
    /\ ePc' = IF eOut'.panic THEN "panicked" ELSE "returned"
    /\ UNCHANGED <<eMap, eResp>>
    /\ UNCHANGED <<orchVars, execVars, curlVars>>

NextEval == CallExecuteAssertion

SpecEval == InitEval /\ [][NextEval]_vars

(***************************************************************************)
(* The Command Parser (internal/utils/curl_parser.go).  The command text   *)
(* and everything cut out of it are sequences of one-character strings.    *)
(***************************************************************************)
Space == " "
Whitespace == {" ", "\n", "\t"}

LowerLetters ==
    <<"a", "b", "c", "d", "e", "f", "g", "h", "i", "j", "k", "l", "m",
      "n", "o", "p", "q", "r", "s", "t", "u", "v", "w", "x", "y", "z">>
UpperLetters ==
    <<"A", "B", "C", "D", "E", "F", "G", "H", "I", "J", "K", "L", "M",
      "N", "O", "P", "Q", "R", "S", "T", "U", "V", "W", "X", "Y", "Z">>

\* strings.ToUpper / strings.ToLower, character by character
UpperChar(c) ==
    IF \E i \in 1..26 : LowerLetters[i] = c
    THEN UpperLetters[CHOOSE i \in 1..26 : LowerLetters[i] = c] ELSE c
LowerChar(c) ==
    IF \E i \in 1..26 : UpperLetters[i] = c
    THEN LowerLetters[CHOOSE i \in 1..26 : UpperLetters[i] = c] ELSE c
ToUpper(s) == [i \in 1..Len(s) |-> UpperChar(s[i])]
ToLower(s) == [i \in 1..Len(s) |-> LowerChar(s[i])]

\* strings.HasPrefix, strings.HasSuffix, strings.Contains, strings.Index
HasPrefix(s, prefix) ==
    Len(s) >= Len(prefix) /\ SubSeq(s, 1, Len(prefix)) = prefix
HasSuffix(s, suffix) ==
    Len(s) >= Len(suffix) /\ SubSeq(s, Len(s) - Len(suffix) + 1, Len(s)) = suffix
Contains(s, sub) ==
    \E i \in 0..(Len(s) - Len(sub)) : SubSeq(s, i + 1, i + Len(sub)) = sub
\* the 1-based place of the first c in s, 0 when there is none
IndexOf(s, c) ==
    IF \E i \in 1..Len(s) : s[i] = c
    THEN CHOOSE i \in 1..Len(s) : s[i] = c /\ \A j \in 1..(i - 1) : s[j] # c
    ELSE 0
LastIndexOf(s, c) ==
    IF \E i \in 1..Len(s) : s[i] = c
    THEN CHOOSE i \in 1..Len(s) : s[i] = c /\ \A j \in (i + 1)..Len(s) : s[j] # c
    ELSE 0
\* s[from:] with a 1-based from
From(s, from) == SubSeq(s, from, Len(s))

\* strings.TrimSpace
RECURSIVE TrimLeft(_)
TrimLeft(s) == IF s # <<>> /\ s[1] \in Whitespace THEN TrimLeft(Tail(s)) ELSE s
RECURSIVE TrimRight(_)
TrimRight(s) ==
    IF s # <<>> /\ s[Len(s)] \in Whitespace THEN TrimRight(SubSeq(s, 1, Len(s) - 1))
    ELSE s
TrimSpace(s) == TrimRight(TrimLeft(s))

\* line 30: strings.ReplaceAll(curlCmd, "\\\n", " ")
RECURSIVE JoinContinuations(_)
JoinContinuations(s) ==
    IF s = <<>> THEN <<>>
    ELSE IF Len(s) >= 2 /\ s[1] = "\\" /\ s[2] = "\n"
    THEN <<Space>> \o JoinContinuations(SubSeq(s, 3, Len(s)))
    ELSE <<s[1]>> \o JoinContinuations(Tail(s))

\* strings.Fields: the maximal runs of non-whitespace characters
RECURSIVE Fields(_, _)
Fields(s, cur) ==
    IF s = <<>> THEN (IF cur = <<>> THEN <<>> ELSE <<cur>>)
    ELSE IF s[1] \in Whitespace
    THEN (IF cur = <<>> THEN <<>> ELSE <<cur>>) \o Fields(Tail(s), <<>>)
    ELSE Fields(Tail(s), Append(cur, s[1]))

\* strings.Join(words, " ")
RECURSIVE JoinSpace(_)
JoinSpace(words) ==
    IF words = <<>> THEN <<>>
    ELSE IF Len(words) = 1 THEN words[1]
    ELSE words[1] \o <<Space>> \o JoinSpace(Tail(words))

\* lines 30-32
NormalizeCommand(curlCmd) ==
    JoinSpace(Fields(ReplaceAll(JoinContinuations(curlCmd), "\\", <<>>), <<>>))

\* lines 43-44: FindAllString of '[^']*'|"[^"]*"|\S+ ; at each place the
\* first alternative that matches is taken
RECURSIVE Tokenize(_)
Tokenize(s) ==
    IF s = <<>> THEN <<>>
    ELSE IF s[1] \in {"'", "\""} /\ IndexOf(Tail(s), s[1]) > 0
    THEN LET close == IndexOf(Tail(s), s[1]) + 1
         IN <<SubSeq(s, 1, close)>> \o Tokenize(From(s, close + 1))
    ELSE IF s[1] \in Whitespace THEN Tokenize(Tail(s))
    ELSE LET gap == IF \E i \in 1..Len(s) : s[i] \in Whitespace
                    THEN CHOOSE i \in 1..Len(s) :
                             s[i] \in Whitespace /\ \A j \in 1..(i - 1) : s[j] \notin Whitespace
                    ELSE Len(s) + 1
         IN <<SubSeq(s, 1, gap - 1)>> \o Tokenize(From(s, gap))

\* lines 182-189.  A string that is one quote character has the quote as
\* prefix and as suffix, and s[1 : len(s)-1] is s[1:0]: a run-time panic.
Quoted(s) ==
    \/ HasPrefix(s, <<"'">>) /\ HasSuffix(s, <<"'">>)
    \/ HasPrefix(s, <<"\"">>) /\ HasSuffix(s, <<"\"">>)
stripQuotesPanics(s) == Quoted(TrimSpace(s)) /\ Len(TrimSpace(s)) = 1
stripQuotes(s) ==
    LET t == TrimSpace(s)
    IN IF Quoted(t) THEN SubSeq(t, 2, Len(t) - 1) ELSE t

\* strings.SplitN(s, sep, 2) for a one-character sep
SplitN2(s, sep) ==
    IF IndexOf(s, sep) = 0 THEN <<s>>
    ELSE <<SubSeq(s, 1, IndexOf(s, sep) - 1), From(s, IndexOf(s, sep) + 1)>>

(***************************************************************************)
(* net/url as ParseCurlCommand uses it (lines 152-163): url.Parse on a     *)
(* token that starts with http:// or https://, and URL.Query().  Escapes   *)
(* decode to the printable ASCII characters; IPv6 literals in the host are *)
(* outside the model's URLs.                                               *)
(***************************************************************************)
HexDigits == <<"0", "1", "2", "3", "4", "5", "6", "7", "8", "9",
               "a", "b", "c", "d", "e", "f", "A", "B", "C", "D", "E", "F">>

IsHex(c) == \E i \in 1..Len(HexDigits) : HexDigits[i] = c

HexVal(c) ==
    LET i == CHOOSE j \in 1..Len(HexDigits) : HexDigits[j] = c
    IN IF i <= 16 THEN i - 1 ELSE i - 7

\* the characters of codes 32..126, in order (code 96 is written "grave")
AsciiPrintable ==
    <<" ", "!", "\"", "#", "$", "%", "&", "'", "(", ")", "*", "+",
      ",", "-", ".", "/", "0", "1", "2", "3", "4", "5", "6", "7",
      "8", "9", ":", ";", "<", "=", ">", "?", "@", "A", "B", "C",
      "D", "E", "F", "G", "H", "I", "J", "K", "L", "M", "N", "O",
      "P", "Q", "R", "S", "T", "U", "V", "W", "X", "Y", "Z", "[",
      "\\", "]", "^", "_", "grave", "a", "b", "c", "d", "e", "f", "g",
      "h", "i", "j", "k", "l", "m", "n", "o", "p", "q", "r", "s",
      "t", "u", "v", "w", "x", "y", "z", "{", "|", "}", "~">>

\* the character a valid %XX escape stands for
HexChar(h1, h2) ==
    LET code == 16 * HexVal(h1) + HexVal(h2)
    IN IF code >= 32 /\ code <= 126 THEN AsciiPrintable[code - 31] ELSE "byte"

AlphaNumeric ==
    {LowerLetters[i] : i \in 1..26} \cup {UpperLetters[i] : i \in 1..26} \cup Digits

\* the printable characters url.Parse rejects in a host name
HostInvalidChars == {" ", "#", "/", "?", "@", "\\", "^", "grave", "{", "|", "}"}

\* the characters validUserinfo accepts besides letters and digits
UserinfoChars ==
    {"-", ".", "_", ":", "~", "!", "$", "&", "'", "(", ")", "*", "+", ",", ";",
     "=", "%", "@"}

\* unescape(s, mode) fails.  mode: "host" | "path" | "query"
RECURSIVE UnescapeFails(_, _)
UnescapeFails(s, mode) ==
    IF s = <<>> THEN FALSE
    ELSE IF s[1] = "%"
    THEN IF Len(s) < 3 \/ ~IsHex(s[2]) \/ ~IsHex(s[3]) THEN TRUE
         ELSE IF mode = "host" /\ HexVal(s[2]) < 8 /\ SubSeq(s, 1, 3) # <<"%", "2", "5">>
         THEN TRUE
         ELSE UnescapeFails(From(s, 4), mode)
    ELSE IF mode = "host" /\ s[1] \in HostInvalidChars THEN TRUE
    ELSE UnescapeFails(Tail(s), mode)

\* unescape(s, mode) when it does not fail
RECURSIVE Unescape(_, _)
Unescape(s, mode) ==
    IF s = <<>> THEN <<>>
    ELSE IF s[1] = "%" THEN <<HexChar(s[2], s[3])>> \o Unescape(From(s, 4), mode)
    ELSE IF mode = "query" /\ s[1] = "+" THEN <<Space>> \o Unescape(Tail(s), mode)
    ELSE <<s[1]>> \o Unescape(Tail(s), mode)

\* validOptionalPort on the part of the host from its last colon on
ValidOptionalPort(colonPort) ==
    \A i \in 2..Len(colonPort) : colonPort[i] \in Digits

\* parseAuthority fails: userinfo or host not valid
AuthorityFails(authority) ==
    LET at == LastIndexOf(authority, "@")
        userinfo == SubSeq(authority, 1, at - 1)
        host == From(authority, at + 1)
        colon == LastIndexOf(host, ":")
    IN \/ at > 0 /\ \E i \in 1..Len(userinfo) :
                        userinfo[i] \notin AlphaNumeric \cup UserinfoChars
       \/ colon > 0 /\ ~ValidOptionalPort(From(host, colon))
       \/ UnescapeFails(host, "host")

\* url.Parse(rawURL): [err, scheme, host, path, rawQuery]
URLParse(rawURL) ==
    LET hash == IndexOf(rawURL, "#")
        noFrag == IF hash = 0 THEN rawURL ELSE SubSeq(rawURL, 1, hash - 1)
        frag == IF hash = 0 THEN <<>> ELSE From(rawURL, hash + 1)
        scheme == SubSeq(noFrag, 1, IndexOf(noFrag, ":") - 1)
        afterScheme == From(noFrag, IndexOf(noFrag, ":") + 1)
        mark == IndexOf(afterScheme, "?")
        beforeQuery == IF mark = 0 THEN afterScheme ELSE SubSeq(afterScheme, 1, mark - 1)
        rawQuery == IF mark = 0 THEN <<>> ELSE From(afterScheme, mark + 1)
        authorityAndPath == From(beforeQuery, 3)
        slash == IndexOf(authorityAndPath, "/")
        authority == IF slash = 0 THEN authorityAndPath
                     ELSE SubSeq(authorityAndPath, 1, slash - 1)
        rawPath == IF slash = 0 THEN <<>> ELSE From(authorityAndPath, slash)
        host == From(authority, LastIndexOf(authority, "@") + 1)
        failed == \/ AuthorityFails(authority)
                  \/ UnescapeFails(rawPath, "path")
                  \/ UnescapeFails(frag, "path")
    IN IF failed
       THEN [err |-> TRUE, scheme |-> <<>>, host |-> <<>>, path |-> <<>>,
             rawQuery |-> <<>>]
       ELSE [err |-> FALSE, scheme |-> ToLower(scheme),
             host |-> Unescape(host, "host"), path |-> Unescape(rawPath, "path"),
             rawQuery |-> rawQuery]

\* map[string]string
EmptyMap == [key \in {} |-> <<>>]
Put(m, key, value) == (key :> value) @@ m

\* URL.Query() and lines 157-163: the first value of every key ParseQuery
\* keeps; a pair that holds ';' or a bad escape is dropped, its error ignored
RECURSIVE QueryFirstValues(_, _)
QueryFirstValues(query, m) ==
    IF query = <<>> THEN m
    ELSE LET amp == IndexOf(query, "&")
             pair == IF amp = 0 THEN query ELSE SubSeq(query, 1, amp - 1)
             rest == IF amp = 0 THEN <<>> ELSE From(query, amp + 1)
             eq == IndexOf(pair, "=")
             key == IF eq = 0 THEN pair ELSE SubSeq(pair, 1, eq - 1)
             value == IF eq = 0 THEN <<>> ELSE From(pair, eq + 1)
         IN IF \/ Contains(pair, <<";">>)
               \/ pair = <<>>
               \/ UnescapeFails(key, "query")
               \/ UnescapeFails(value, "query")
            THEN QueryFirstValues(rest, m)
            ELSE LET k == Unescape(key, "query")
                 IN QueryFirstValues(rest,
                        IF k \in DOMAIN m THEN m
                        ELSE Put(m, k, Unescape(value, "query")))

\* lines 167-173: the names matched by \{([^}]+)\} in the URL
RECURSIVE PathVarNames(_)
PathVarNames(s) ==
    IF s = <<>> THEN {}
    ELSE IF s[1] = "{" /\ IndexOf(s, "}") > 2
    THEN {SubSeq(s, 2, IndexOf(s, "}") - 1)} \cup PathVarNames(From(s, IndexOf(s, "}") + 1))
    ELSE PathVarNames(Tail(s))

\* lines 192-220
classifyRequest(req) ==
    LET urlLower == ToLower(req.url)
        method == ToUpper(req.method)
        fhir == Contains(urlLower, <<"/", "f", "h", "i", "r", "/">>)
    IN CASE Contains(urlLower, <<"/", "$", "e", "x", "p", "o", "r", "t">>) -> "FHIR Bulk Export"
         [] fhir /\ method = <<"G", "E", "T">> -> "FHIR Read"
         [] fhir /\ method = <<"P", "O", "S", "T">> -> "FHIR Create/Action"
         [] fhir /\ method = <<"P", "U", "T">> -> "FHIR Update"
         [] fhir /\ method = <<"D", "E", "L", "E", "T", "E">> -> "FHIR Delete"
         [] method = <<"G", "E", "T">> -> "Fetch"
         [] method = <<"P", "O", "S", "T">> -> "Submit"
         [] method = <<"P", "U", "T">> -> "Update"
         [] method = <<"D", "E", "L", "E", "T", "E">> -> "Delete"
         [] method = <<"P", "A", "T", "C", "H">> -> "Patch"
         [] OTHER -> "Other"

(***************************************************************************)
(* ParseCurlCommand.  The outcome is [kind, err, result]:                  *)
(*   kind = "ok":    result is the CurlRequest returned, err is NoErr      *)
(*   kind = "error": (nil, err) was returned                               *)
(*   kind = "panic": the call did not return (stripQuotes on a token that  *)
(*                   is one quote character)                               *)
(***************************************************************************)
NoErr == [e |-> ""]
ErrEmpty == [e |-> "curl command cannot be empty"]
ErrInvalidCommand == [e |-> "invalid curl command"]
ErrMissingMethod == [e |-> "missing method after -X/--request"]
ErrMissingHeader == [e |-> "missing header value after -H/--header"]
ErrInvalidHeader(header) == [e |-> "invalid header format: %s", header |-> header]
ErrMissingData == [e |-> "missing data after --data/-d"]
ErrMissingForm == [e |-> "missing form data after --form/-F"]
ErrMissingCredentials == [e |-> "missing credentials after --user/-u"]
ErrMissingCookie == [e |-> "missing cookie value after --cookie/-b"]
ErrNoURL == [e |-> "no URL found in curl command"]
ErrInvalidURL == [e |-> "invalid URL: %v"]

NoResult == [k |-> "nil"]

ParseOk(result) == [kind |-> "ok", err |-> NoErr, result |-> result]
ParseError(err) == [kind |-> "error", err |-> err, result |-> NoResult]
ParsePanic == [kind |-> "panic", err |-> NoErr, result |-> NoResult]

MethodGET == <<"G", "E", "T">>
MethodPOST == <<"P", "O", "S", "T">>

\* lines 34-40
NewCurlRequest(curlCmd) ==
    [method |-> MethodGET, url |-> <<>>, headers |-> EmptyMap, body |-> <<>>,
     queryParams |-> EmptyMap, pathVariables |-> EmptyMap, requestType |-> "",
     rawCommand |-> curlCmd]

FlagsMethod == {<<"-", "X">>, <<"-", "-", "r", "e", "q", "u", "e", "s", "t">>}
FlagsHeader == {<<"-", "H">>, <<"-", "-", "h", "e", "a", "d", "e", "r">>}
FlagsData == {<<"-", "-", "d", "a", "t", "a">>, <<"-", "-", "d", "a", "t", "a", "-", "r", "a", "w">>, <<"-", "-", "d", "a", "t", "a", "-", "b", "i", "n", "a", "r", "y">>, <<"-", "d">>}
FlagsForm == {<<"-", "-", "f", "o", "r", "m">>, <<"-", "F">>}
FlagsUser == {<<"-", "-", "u", "s", "e", "r">>, <<"-", "u">>}
FlagsCookie == {<<"-", "-", "c", "o", "o", "k", "i", "e">>, <<"-", "b">>}
FlagsIgnored ==
    {<<"-", "-", "l", "o", "c", "a", "t", "i", "o", "n">>, <<"-", "L">>, <<"-", "-", "c", "o", "m", "p", "r", "e", "s", "s", "e", "d">>, <<"-", "C">>, <<"-", "-", "i", "n", "s", "e", "c", "u", "r", "e">>,
     <<"-", "k">>, <<"-", "-", "s", "i", "l", "e", "n", "t">>, <<"-", "s">>, <<"-", "-", "v", "e", "r", "b", "o", "s", "e">>, <<"-", "v">>}

KeyAuthorization == <<"A", "u", "t", "h", "o", "r", "i", "z", "a", "t", "i", "o", "n">>
KeyCookie == <<"C", "o", "o", "k", "i", "e">>

\* lines 80-82 and 89-91: a data or form flag turns the method into POST
\* when the method is GET at that moment
MethodAfterData(method) == IF method = MethodGET THEN MethodPOST ELSE method

\* lines 136-141: the URL a token that is no flag stands for, <<>> when the
\* token is not taken as a URL
URLOfToken(token) ==
    IF HasPrefix(token, <<"h", "t", "t", "p", ":", "/", "/">>) \/ HasPrefix(token, <<"h", "t", "t", "p", "s", ":", "/", "/">>)
    THEN token
    ELSE IF HasPrefix(token, <<"l", "o", "c", "a", "l", "h", "o", "s", "t", ":">>) \/ HasPrefix(token, <<"1", "2", "7", ".", "0", ".", "0", ".", "1", ":">>)
    THEN <<"h", "t", "t", "p", ":", "/", "/">> \o token
    ELSE <<>>

\* lines 50-143: the loop over the tokens, from the i-th on
RECURSIVE WalkTokens(_, _, _)
WalkTokens(tokens, i, result) ==
    IF i > Len(tokens) THEN ParseOk(result)
    ELSE IF stripQuotesPanics(tokens[i]) THEN ParsePanic
    ELSE
    LET token == stripQuotes(tokens[i])
        last == i + 1 > Len(tokens)
        argPanics == ~last /\ stripQuotesPanics(tokens[i + 1])
        arg == IF last THEN <<>> ELSE stripQuotes(tokens[i + 1])
    IN CASE token = <<"c", "u", "r", "l">> -> WalkTokens(tokens, i + 1, result)
         [] token \in FlagsMethod ->
              IF last THEN ParseError(ErrMissingMethod)
              ELSE IF argPanics THEN ParsePanic
              ELSE WalkTokens(tokens, i + 2, [result EXCEPT !.method = ToUpper(arg)])
         [] token \in FlagsHeader ->
              IF last THEN ParseError(ErrMissingHeader)
              ELSE IF argPanics THEN ParsePanic
              ELSE LET parts == SplitN2(arg, ":")
                   IN IF Len(parts) = 2
                      THEN WalkTokens(tokens, i + 2,
                               [result EXCEPT !.headers =
                                   Put(@, TrimSpace(parts[1]), TrimSpace(parts[2]))])
                      ELSE ParseError(ErrInvalidHeader(arg))
         [] token \in FlagsData ->
              IF last THEN ParseError(ErrMissingData)
              ELSE IF argPanics THEN ParsePanic
              ELSE WalkTokens(tokens, i + 2,
                       [result EXCEPT !.method = MethodAfterData(@), !.body = arg])
         [] token \in FlagsForm ->
              IF last THEN ParseError(ErrMissingForm)
              ELSE IF argPanics THEN ParsePanic
              ELSE LET parts == SplitN2(arg, "=")
                       pair == IF Len(parts) = 2 THEN parts[1] \o <<"=">> \o parts[2]
                               ELSE <<>>
                   IN WalkTokens(tokens, i + 2,
                          [result EXCEPT
                              !.method = MethodAfterData(@),
                              !.body = IF Len(parts) # 2 THEN @
                                       ELSE IF @ = <<>> THEN pair
                                       ELSE @ \o <<"&">> \o pair])
         [] token \in FlagsUser ->
              IF last THEN ParseError(ErrMissingCredentials)
              ELSE IF argPanics THEN ParsePanic
              ELSE WalkTokens(tokens, i + 2,
                       [result EXCEPT !.headers =
                           IF Len(SplitN2(arg, ":")) = 2
                           THEN Put(@, KeyAuthorization, <<"B", "a", "s", "i", "c", " ">> \o arg)
                           ELSE @])
         [] token \in FlagsCookie ->
              IF last THEN ParseError(ErrMissingCookie)
              ELSE IF argPanics THEN ParsePanic
              ELSE WalkTokens(tokens, i + 2,
                       [result EXCEPT !.headers = Put(@, KeyCookie, arg)])
         [] token \in FlagsIgnored -> WalkTokens(tokens, i + 1, result)
         [] OTHER ->
              WalkTokens(tokens, i + 1,
                  IF URLOfToken(token) # <<>>
                  THEN [result EXCEPT !.url = URLOfToken(token)]
                  ELSE result)

\* lines 145-178: what follows the loop
FinishParse(result) ==
    IF result.url = <<>> THEN ParseError(ErrNoURL)
    ELSE LET hasQuery == Contains(result.url, <<"?">>)
             parsedURL == URLParse(result.url)
         IN IF hasQuery /\ parsedURL.err THEN ParseError(ErrInvalidURL)
            ELSE LET split ==
                         IF hasQuery
                         THEN [result EXCEPT
                                  !.url = parsedURL.scheme \o <<":", "/", "/">>
                                            \o parsedURL.host \o parsedURL.path,
                                  !.queryParams =
                                      QueryFirstValues(parsedURL.rawQuery, @)]
                         ELSE result
                     withVars == [split EXCEPT !.pathVariables =
                                     [name \in PathVarNames(split.url) |-> <<>>]]
                 IN ParseOk([withVars EXCEPT !.requestType = classifyRequest(withVars)])

\* lines 24-179
ParseCurlCommand(curlCmd) ==
    IF curlCmd = <<>> THEN ParseError(ErrEmpty)
    ELSE LET tokens == Tokenize(NormalizeCommand(curlCmd))
         IN IF Len(tokens) = 0 THEN ParseError(ErrInvalidCommand)
            ELSE LET walked == WalkTokens(tokens, 1, NewCurlRequest(curlCmd))
                 IN IF walked.kind = "ok" THEN FinishParse(walked.result)
                    ELSE walked

(***************************************************************************)
(* The commands the model draws from: up to MaxPieces pieces, each a flag  *)
(* with its argument, a flag alone, or a token that is no flag, joined by  *)
(* single spaces.                                                          *)
(***************************************************************************)
\* the largest number of pieces a command is made of
MaxPieces == 3

CurlPieces ==
    { <<"c", "u", "r", "l">>,
      <<"-", "X", " ", "G", "E", "T">>,
      <<"-", "-", "r", "e", "q", "u", "e", "s", "t", " ", "p", "u", "t">>,
      <<"-", "X">>,
      <<"-", "d", " ", "'", "a", "=", "1", "'">>,
      <<"-", "F", " ", "k", "=", "v">>,
      <<"-", "H", " ", "'", "A", ":", " ", "b", "'">>,
      <<"-", "H", " ", "a", "b">>,
      <<"-", "u", " ", "b", "o", "b", ":", "s", "e", "c", "r", "e", "t">>,
      <<"-", "b", " ", "c", "=", "1">>,
      <<"-", "L">>,
      <<"h", "t", "t", "p", "s", ":", "/", "/", "x", "/", "y">>,
      <<"'", "h", "t", "t", "p", ":", "/", "/", "h", "/", "{", "i", "d", "}", "?", "a", "=", "1", "&", "b", "'">>,
      <<"l", "o", "c", "a", "l", "h", "o", "s", "t", ":", "8", "0", "8", "0", "/", "x">>,
      <<"e", "x", "a", "m", "p", "l", "e", ".", "c", "o", "m", ":", "8", "0", "8", "0", "/", "p">>,
      <<"h", "t", "t", "p", ":", "/", "/", "h", "/", "a", "%", "3", "F", "b", "?", "x", "=", "1">>,
      <<"h", "t", "t", "p", ":", "/", "/", "h", "/", "p", "?", "a", "=", "1", ";", "b", "=", "2">>,
      <<"h", "t", "t", "p", ":", "/", "/", "h", ":", "x", "/", "p", "?", "a", "=", "1">>,
      <<"'">>,
      <<"\\", "\n">> }

CurlCommands == {JoinSpace(ps) : ps \in SeqsUpTo(CurlPieces, MaxPieces)}

InitCurl ==
    /\ InitOrchOff
    /\ InitExecOff
    /\ InitEvalOff
    /\ curlPc = "ready"
    /\ curlIn \in CurlCommands
    /\ curlOut = NoOut

CallParseCurlCommand ==
    /\ curlPc = "ready"
    /\ curlOut' = ParseCurlCommand(curlIn)
    /\ curlPc' = IF curlOut'.kind = "panic" THEN "panicked" ELSE "returned"
    /\ UNCHANGED curlIn
    /\ UNCHANGED <<orchVars, execVars, evalVars>>

NextCurl == CallParseCurlCommand

SpecCurl == InitCurl /\ [][NextCurl]_vars

(***************************************************************************)
(* The Run Orchestrator.                                                   *)
(*                                                                         *)
(* A test case of the slice: its id (its place in the query's result) and  *)
(* its stored test specification, which json.Unmarshal either turns into a *)
(* models.TestSpec or rejects.                                             *)
(***************************************************************************)
Unparseable == [parses |-> FALSE, testSpec |-> TestSpecNoAssertions]
Parseable(testSpec) == [parses |-> TRUE, testSpec |-> testSpec]

\* passes when the body has an id
SpecExistsId == TestSpec(<<AssertionSpec("exists", PathBodyId, "", JNull)>>)
\* a json_path assertion with a path and no matcher
SpecNoMatcher == TestSpec(<<AssertionSpec("json_path", KeyId, "", JNull)>>)

StoredSpecs == {Unparseable, Parseable(SpecExistsId), Parseable(SpecNoMatcher)}

CaseSeqs == SeqsUpTo(StoredSpecs, MaxCases)

\* what a round trip made by the batch may yield
BatchResponses ==
    { TransportError, JSONResponse(200, BodyObject), JSONResponse(200, JNull),
      JSONResponse(404, BodyObject), NonJSONResponse(200) }

\* a row of test_runs
NewTestRun ==
    [status |-> "running", total |-> 0, passed |-> 0, failed |-> 0,
     executionTime |-> "0", completedAt |-> "null"]

\* a variant of ForcedFailed that also writes total_tests = 0
ForcedFailed_ZeroesTotal(r, who) ==
    [r EXCEPT !.status = "failed", !.total = 0, !.passed = 0, !.failed = 0,
              !.executionTime = "0", !.completedAt = who]

\* the Updates map of lines 79-85, 99-105 and 118-124, applied to a row;
\* who stands for the time.Now() that writer took
ForcedFailed(r, who) ==
    [r EXCEPT !.status = "failed", !.passed = 0, !.failed = 0,
              !.executionTime = "0", !.completedAt = who]

\* a variant of FinalUpdate that decides the status on the passed count
FinalUpdate_StatusFromPassed(r, passed, failed) ==
    [r EXCEPT !.status = IF passed = 0 THEN "failed" ELSE "completed",
              !.passed = passed, !.failed = failed,
              !.executionTime = "since first case was created",
              !.completedAt = "batch"]

\* a variant of FinalUpdate that counts every executed case as passed as well
FinalUpdate_PassedCountsAll(r, passed, failed) ==
    [r EXCEPT !.status = IF failed > 0 THEN "failed" ELSE "completed",
              !.passed = passed + failed, !.failed = failed,
              !.executionTime = "since first case was created",
              !.completedAt = "batch"]

\* the Updates map of lines 175-181
FinalUpdate(r, passed, failed) ==
    [r EXCEPT !.status = IF failed > 0 THEN "failed" ELSE "completed",
              !.passed = passed, !.failed = failed,
              !.executionTime = "since first case was created",
              !.completedAt = "batch"]

\* a variant of TestResultRow that leaves the error message out
TestResultRow_DropsMessage(run, case, status, executionTimeMs, errorMessage, responseData) ==
    [run |-> run, case |-> case, status |-> status,
     executionTimeMs |-> executionTimeMs, errorMessage |-> NoMsg,
     responseData |-> IF responseData = NoResponseData THEN [k |-> "{}"]
                      ELSE responseData]

\* recordTestResult: the row inserted into test_results
TestResultRow(run, case, status, executionTimeMs, errorMessage, responseData) ==
    [run |-> run, case |-> case, status |-> status,
     executionTimeMs |-> executionTimeMs, errorMessage |-> errorMessage,
     responseData |-> IF responseData = NoResponseData THEN [k |-> "{}"]
                      ELSE responseData]

\* ---- StartTestRun ----

\* line 40: db.Create succeeds
StartCreate(r) ==
    /\ callerPc[r] = "idle"
    /\ local' = [local EXCEPT ![r] = NewTestRun]
    /\ row' = [row EXCEPT ![r] = NewTestRun]
    /\ callerPc' = [callerPc EXCEPT ![r] = "created"]
    /\ UNCHANGED <<returned, cases, results, waiterPc, batchPc, idx, passedTests,
                   failedTests, done, execLog, crashed>>
    /\ UNCHANGED <<execVars, evalVars, curlVars>>

\* lines 40-42: db.Create fails
StartCreateFail(r) ==
    /\ callerPc[r] = "idle"
    /\ callerPc' = [callerPc EXCEPT ![r] = "error"]
    /\ UNCHANGED <<local, returned, cases, row, results, waiterPc, batchPc, idx,
                   passedTests, failedTests, done, execLog, crashed>>
    /\ UNCHANGED <<execVars, evalVars, curlVars>>

\* lines 45-54: the query yields the test cases
StartFind(r) ==
    /\ callerPc[r] = "created"
    /\ \E cs \in CaseSeqs : cases' = [cases EXCEPT ![r] = cs]
    /\ callerPc' = [callerPc EXCEPT ![r] = "found"]
    /\ UNCHANGED <<local, returned, row, results, waiterPc, batchPc, idx,
                   passedTests, failedTests, done, execLog, crashed>>
    /\ UNCHANGED <<execVars, evalVars, curlVars>>

\* a variant of StartFindFail that sets the stored run to failed before it
\* returns the error
StartFindFail_MarksFailed(r) ==
    /\ callerPc[r] = "created"
    /\ row' = [row EXCEPT ![r] = ForcedFailed(@, "caller")]
    /\ callerPc' = [callerPc EXCEPT ![r] = "error"]
    /\ UNCHANGED <<local, returned, cases, results, waiterPc, batchPc, idx,
                   passedTests, failedTests, done, execLog, crashed>>
    /\ UNCHANGED <<execVars, evalVars, curlVars>>

\* lines 54-56: the query fails
StartFindFail(r) ==
    /\ callerPc[r] = "created"
    /\ callerPc' = [callerPc EXCEPT ![r] = "error"]
    /\ UNCHANGED <<local, returned, cases, row, results, waiterPc, batchPc, idx,
                   passedTests, failedTests, done, execLog, crashed>>
    /\ UNCHANGED <<execVars, evalVars, curlVars>>

\* lines 58-59: TotalTests is set and db.Save writes the struct
StartSave(r) ==
    /\ callerPc[r] = "found"
    /\ local' = [local EXCEPT ![r].total = Len(cases[r])]
    /\ row' = [row EXCEPT ![r] = local'[r]]
    /\ callerPc' = [callerPc EXCEPT ![r] = "saved"]
    /\ UNCHANGED <<returned, cases, results, waiterPc, batchPc, idx, passedTests,
                   failedTests, done, execLog, crashed>>
    /\ UNCHANGED <<execVars, evalVars, curlVars>>

\* lines 58-61: db.Save fails
StartSaveFail(r) ==
    /\ callerPc[r] = "found"
    /\ local' = [local EXCEPT ![r].total = Len(cases[r])]
    /\ callerPc' = [callerPc EXCEPT ![r] = "error"]
    /\ UNCHANGED <<returned, cases, row, results, waiterPc, batchPc, idx,
                   passedTests, failedTests, done, execLog, crashed>>
    /\ UNCHANGED <<execVars, evalVars, curlVars>>

\* line 64: go func() starts the waiting goroutine
StartLaunch(r) ==
    /\ callerPc[r] = "saved"
    /\ waiterPc' = [waiterPc EXCEPT ![r] = "start"]
    /\ callerPc' = [callerPc EXCEPT ![r] = "launched"]
    /\ UNCHANGED <<local, returned, cases, row, results, batchPc, idx, passedTests,
                   failedTests, done, execLog, crashed>>
    /\ UNCHANGED <<execVars, evalVars, curlVars>>

\* line 89: return testRun, nil
StartReturn(r) ==
    /\ callerPc[r] = "launched"
    /\ returned' = [returned EXCEPT ![r] = local[r]]
    /\ callerPc' = [callerPc EXCEPT ![r] = "returned"]
    /\ UNCHANGED <<local, cases, row, results, waiterPc, batchPc, idx, passedTests,
                   failedTests, done, execLog, crashed>>
    /\ UNCHANGED <<execVars, evalVars, curlVars>>

\* ---- the waiting goroutine ----

\* lines 66-70: make(chan bool, 1) and go func() starting the batch
WaiterSpawn(r) ==
    /\ waiterPc[r] = "start"
    /\ done' = [done EXCEPT ![r] = 0]
    /\ batchPc' = [batchPc EXCEPT ![r] = "start"]
    /\ waiterPc' = [waiterPc EXCEPT ![r] = "select"]
    /\ UNCHANGED <<callerPc, local, returned, cases, row, results, idx, passedTests,
                   failedTests, execLog, crashed>>
    /\ UNCHANGED <<execVars, evalVars, curlVars>>

\* line 73: case <-done
WaiterDone(r) ==
    /\ waiterPc[r] = "select"
    /\ done[r] > 0
    /\ done' = [done EXCEPT ![r] = @ - 1]
    /\ waiterPc' = [waiterPc EXCEPT ![r] = "finished"]
    /\ UNCHANGED <<callerPc, local, returned, cases, row, results, batchPc, idx,
                   passedTests, failedTests, execLog, crashed>>
    /\ UNCHANGED <<execVars, evalVars, curlVars>>

\* a variant of WaiterTimeout that only prints the message
WaiterTimeout_NoUpdate(r) ==
    /\ waiterPc[r] = "select"
    /\ waiterPc' = [waiterPc EXCEPT ![r] = "timedout"]
    /\ UNCHANGED <<callerPc, local, returned, cases, row, results, batchPc, idx,
                   passedTests, failedTests, done, execLog, crashed>>
    /\ UNCHANGED <<execVars, evalVars, curlVars>>

\* lines 75-85: case <-time.After(5 * time.Minute)
WaiterTimeout(r) ==
    /\ waiterPc[r] = "select"
    /\ row' = [row EXCEPT ![r] = ForcedFailed(@, "timeout")]
    /\ waiterPc' = [waiterPc EXCEPT ![r] = "timedout"]
    /\ UNCHANGED <<callerPc, local, returned, cases, results, batchPc, idx,
                   passedTests, failedTests, done, execLog, crashed>>
    /\ UNCHANGED <<execVars, evalVars, curlVars>>

\* ---- the batch goroutine: executeTests, then done <- true ----

\* an entry of the history execLog: the test case of the iteration, how its
\* HTTP call went ("none": no call was made; "pending": in flight), what the
\* iteration came to, and how many assertions were evaluated
LogEntry(case, call, outcome, evaluated) ==
    [case |-> case, call |-> call, outcome |-> outcome, evaluated |-> evaluated]

RespClass(resp) ==
    IF resp.transport = "error" THEN "transport_error"
    ELSE IF resp.status >= 400 THEN "http_error"
    ELSE "ok"

\* a variant of CurrentCase that walks the slice from its end
CurrentCase_Reversed(r) == Len(cases[r]) - idx[r]

\* line 128: the test case the loop is at
CurrentCase(r) == idx[r] + 1

\* a variant of BatchEmpty that returns without writing the row
BatchEmpty_NoUpdate(r) ==
    /\ batchPc[r] = "start"
    /\ Len(cases[r]) = 0
    /\ batchPc' = [batchPc EXCEPT ![r] = "send"]
    /\ UNCHANGED <<callerPc, local, returned, cases, row, results, waiterPc, idx,
                   passedTests, failedTests, done, execLog, crashed>>
    /\ UNCHANGED <<execVars, evalVars, curlVars>>

\* lines 109-126: no test case: the run is set to failed and executeTests returns
BatchEmpty(r) ==
    /\ batchPc[r] = "start"
    /\ Len(cases[r]) = 0
    /\ row' = [row EXCEPT ![r] = ForcedFailed(@, "empty")]
    /\ batchPc' = [batchPc EXCEPT ![r] = "send"]
    /\ UNCHANGED <<callerPc, local, returned, cases, results, waiterPc, idx,
                   passedTests, failedTests, done, execLog, crashed>>
    /\ UNCHANGED <<execVars, evalVars, curlVars>>

\* lines 109-115: the counters start at zero and the loop is entered
BatchBegin(r) ==
    /\ batchPc[r] = "start"
    /\ Len(cases[r]) > 0
    /\ passedTests' = [passedTests EXCEPT ![r] = 0]
    /\ failedTests' = [failedTests EXCEPT ![r] = 0]
    /\ idx' = [idx EXCEPT ![r] = 0]
    /\ batchPc' = [batchPc EXCEPT ![r] = "loop"]
    /\ UNCHANGED <<callerPc, local, returned, cases, row, results, waiterPc,
                   done, execLog, crashed>>
    /\ UNCHANGED <<execVars, evalVars, curlVars>>

\* lines 132-138: the stored specification does not parse
BatchParseFail(r) ==
    /\ batchPc[r] = "loop"
    /\ idx[r] < Len(cases[r])
    /\ ~cases[r][CurrentCase(r)].parses
    /\ results' = Append(results,
           TestResultRow(r, CurrentCase(r), "failed", "0", MsgParseError,
                         NoResponseData))
    /\ failedTests' = [failedTests EXCEPT ![r] = @ + 1]
    /\ idx' = [idx EXCEPT ![r] = @ + 1]
    /\ execLog' = [execLog EXCEPT ![r] =
           Append(@, LogEntry(CurrentCase(r), "none", "parse_error", 0))]
    /\ UNCHANGED <<callerPc, local, returned, cases, row, waiterPc, batchPc,
                   passedTests, done, crashed>>
    /\ UNCHANGED <<execVars, evalVars, curlVars>>

\* lines 132-144: the specification parses and ExecuteTest sends the request
BatchCall(r) ==
    /\ batchPc[r] = "loop"
    /\ idx[r] < Len(cases[r])
    /\ cases[r][CurrentCase(r)].parses
    /\ batchPc' = [batchPc EXCEPT ![r] = "exec"]
    /\ execLog' = [execLog EXCEPT ![r] =
           Append(@, LogEntry(CurrentCase(r), "pending", "pending", 0))]
    /\ UNCHANGED <<callerPc, local, returned, cases, row, results, waiterPc, idx,
                   passedTests, failedTests, done, crashed>>
    /\ UNCHANGED <<execVars, evalVars, curlVars>>

\* what the ExecuteTest call of the current iteration may produce
ExecOutcomes(r) ==
    {[call |-> RespClass(resp),
      result |-> ExecuteTest(cases[r][CurrentCase(r)].testSpec, resp)] :
        resp \in BatchResponses}

\* lines 144-157: ExecuteTest returns; the counters and test_results follow
BatchReturn(r) ==
    /\ batchPc[r] = "exec"
    /\ \E out \in ExecOutcomes(r) :
          /\ out.result.kind = "return"
          /\ failedTests' = [failedTests EXCEPT ![r] =
                 IF out.result.status = "FAILED" THEN @ + 1 ELSE @]
          /\ passedTests' = [passedTests EXCEPT ![r] =
                 IF out.result.status = "FAILED" THEN @ ELSE @ + 1]
          /\ results' = Append(results,
                 TestResultRow(r, CurrentCase(r),
                               IF out.result.status = "FAILED" THEN "failed"
                               ELSE "passed",
                               out.result.duration, out.result.errorMessage,
                               out.result.responseData))
          /\ execLog' = [execLog EXCEPT ![r][Len(execLog[r])] =
                 LogEntry(CurrentCase(r), out.call, out.result.status,
                          Len(out.result.assertionResults))]
    /\ idx' = [idx EXCEPT ![r] = @ + 1]
    /\ batchPc' = [batchPc EXCEPT ![r] = "loop"]
    /\ UNCHANGED <<callerPc, local, returned, cases, row, waiterPc, done, crashed>>
    /\ UNCHANGED <<execVars, evalVars, curlVars>>

\* line 144: ExecuteTest panics; the stack unwinds to the deferred function
BatchPanic(r) ==
    /\ batchPc[r] = "exec"
    /\ \E out \in ExecOutcomes(r) :
          /\ out.result.kind = "panic"
          /\ execLog' = [execLog EXCEPT ![r][Len(execLog[r])] =
                 LogEntry(CurrentCase(r), out.call, "panic", 0)]
    /\ batchPc' = [batchPc EXCEPT ![r] = "panicked"]
    /\ UNCHANGED <<callerPc, local, returned, cases, row, results, waiterPc, idx,
                   passedTests, failedTests, done, crashed>>
    /\ UNCHANGED <<execVars, evalVars, curlVars>>

\* a variant of BatchRecover without the deferred recover(): the panic ends
\* the goroutine and with it the process
BatchRecover_NoRecover(r) ==
    /\ batchPc[r] = "panicked"
    /\ crashed' = TRUE
    /\ batchPc' = [batchPc EXCEPT ![r] = "dead"]
    /\ UNCHANGED <<callerPc, local, returned, cases, row, results, waiterPc, idx,
                   passedTests, failedTests, done, execLog>>
    /\ UNCHANGED <<execVars, evalVars, curlVars>>

\* lines 95-107: recover() catches the panic; the run is set to failed
BatchRecover(r) ==
    /\ batchPc[r] = "panicked"
    /\ row' = [row EXCEPT ![r] = ForcedFailed(@, "recover")]
    /\ batchPc' = [batchPc EXCEPT ![r] = "send"]
    /\ UNCHANGED <<callerPc, local, returned, cases, results, waiterPc, idx,
                   passedTests, failedTests, done, execLog, crashed>>
    /\ UNCHANGED <<execVars, evalVars, curlVars>>

\* a variant of BatchFinish whose Updates has no Where clause: it writes
\* every row of test_runs
BatchFinish_AllRows(r) ==
    /\ batchPc[r] = "loop"
    /\ idx[r] = Len(cases[r])
    /\ row' = [q \in RunIds |->
                  IF row[q].status = "none" THEN row[q]
                  ELSE FinalUpdate(row[q], passedTests[r], failedTests[r])]
    /\ batchPc' = [batchPc EXCEPT ![r] = "send"]
    /\ UNCHANGED <<callerPc, local, returned, cases, results, waiterPc, idx,
                   passedTests, failedTests, done, execLog, crashed>>
    /\ UNCHANGED <<execVars, evalVars, curlVars>>

\* lines 159-181: the loop is over; the run row gets its final status
BatchFinish(r) ==
    /\ batchPc[r] = "loop"
    /\ idx[r] = Len(cases[r])
    /\ row' = [row EXCEPT ![r] = FinalUpdate(@, passedTests[r], failedTests[r])]
    /\ batchPc' = [batchPc EXCEPT ![r] = "send"]
    /\ UNCHANGED <<callerPc, local, returned, cases, results, waiterPc, idx,
                   passedTests, failedTests, done, execLog, crashed>>
    /\ UNCHANGED <<execVars, evalVars, curlVars>>

\* a variant of BatchSend on a channel without buffer: the send needs the
\* waiting goroutine to be at its select and hands the value over to it
BatchSend_Unbuffered(r) ==
    /\ batchPc[r] = "send"
    /\ waiterPc[r] = "select"
    /\ waiterPc' = [waiterPc EXCEPT ![r] = "finished"]
    /\ batchPc' = [batchPc EXCEPT ![r] = "done"]
    /\ UNCHANGED <<callerPc, local, returned, cases, row, results, idx,
                   passedTests, failedTests, done, execLog, crashed>>
    /\ UNCHANGED <<execVars, evalVars, curlVars>>

\* line 69: done <- true on a channel of capacity 1
BatchSend(r) ==
    /\ batchPc[r] = "send"
    /\ done[r] < 1
    /\ done' = [done EXCEPT ![r] = @ + 1]
    /\ batchPc' = [batchPc EXCEPT ![r] = "done"]
    /\ UNCHANGED <<callerPc, local, returned, cases, row, results, waiterPc, idx,
                   passedTests, failedTests, execLog, crashed>>
    /\ UNCHANGED <<execVars, evalVars, curlVars>>

(***************************************************************************)
(* One run, from the call of StartTestRun on.  The writes the two          *)
(* goroutines make to the database succeed (the code ignores their errors).*)
(***************************************************************************)
Init ==
    /\ callerPc = [r \in RunIds |-> IF r = "run1" THEN "idle" ELSE "off"]
    /\ local = [r \in RunIds |-> [status |-> "none"]]
    /\ returned = [r \in RunIds |-> [status |-> "none"]]
    /\ cases = [r \in RunIds |-> <<>>]
    /\ row = [r \in RunIds |-> [status |-> "none"]]
    /\ results = <<>>
    /\ waiterPc = [r \in RunIds |-> "none"]
    /\ batchPc = [r \in RunIds |-> "none"]
    /\ idx = [r \in RunIds |-> 0]
    /\ passedTests = [r \in RunIds |-> 0]
    /\ failedTests = [r \in RunIds |-> 0]
    /\ done = [r \in RunIds |-> 0]
    /\ execLog = [r \in RunIds |-> <<>>]
    /\ crashed = FALSE
    /\ InitExecOff
    /\ InitEvalOff
    /\ InitCurlOff

Next ==
    \E r \in RunIds :
        \/ StartCreate(r)
        \/ StartCreateFail(r)
        \/ StartFind(r)
        \/ StartFindFail(r)
        \/ StartSave(r)
        \/ StartSaveFail(r)
        \/ StartLaunch(r)
        \/ StartReturn(r)
        \/ WaiterSpawn(r)
        \/ WaiterDone(r)
        \/ WaiterTimeout(r)
        \/ BatchEmpty(r)
        \/ BatchBegin(r)
        \/ BatchParseFail(r)
        \/ BatchCall(r)
        \/ BatchReturn(r)
        \/ BatchPanic(r)
        \/ BatchRecover(r)
        \/ BatchFinish(r)
        \/ BatchSend(r)

Spec == Init /\ [][Next]_vars

(***************************************************************************)
(* The same run under a fair scheduler.  The waiting goroutine goes on     *)
(* while it has a step to take; its select always has one, since the timer *)
(* of line 75 fires in the end.  The batch goroutine goes on while it has  *)
(* a step of its own to take; an ExecuteTest call in flight (BatchReturn,  *)
(* BatchPanic) is under no such condition: it may never come back.         *)
(***************************************************************************)
WaiterStep(r) == WaiterSpawn(r) \/ WaiterDone(r) \/ WaiterTimeout(r)

BatchStep(r) ==
    \/ BatchEmpty(r)
    \/ BatchBegin(r)
    \/ BatchParseFail(r)
    \/ BatchCall(r)
    \/ BatchRecover(r)
    \/ BatchFinish(r)
    \/ BatchSend(r)

Fairness == \A r \in RunIds : WF_vars(WaiterStep(r)) /\ WF_vars(BatchStep(r))

SpecFair == Init /\ [][Next]_vars /\ Fairness

(***************************************************************************)
(* Two runs started concurrently: two calls of StartTestRun on the same    *)
(* service object and database, each with its own run id (a fresh UUID,    *)
(* models.go:162-167), its own goroutines and its own channel.  The test   *)
(* cases a query yields are at most MaxConcurrentCases.                    *)
(***************************************************************************)
MaxConcurrentCases == 1

ConcurrentCaseSeqs == SeqsUpTo(StoredSpecs, MaxConcurrentCases)

\* lines 45-54: the query yields the test cases
StartFindFew(r) ==
    /\ callerPc[r] = "created"
    /\ \E cs \in ConcurrentCaseSeqs : cases' = [cases EXCEPT ![r] = cs]
    /\ callerPc' = [callerPc EXCEPT ![r] = "found"]
    /\ UNCHANGED <<local, returned, row, results, waiterPc, batchPc, idx,
                   passedTests, failedTests, done, execLog, crashed>>
    /\ UNCHANGED <<execVars, evalVars, curlVars>>

InitConcurrent ==
    /\ callerPc = [r \in RunIds |-> "idle"]
    /\ local = [r \in RunIds |-> [status |-> "none"]]
    /\ returned = [r \in RunIds |-> [status |-> "none"]]
    /\ cases = [r \in RunIds |-> <<>>]
    /\ row = [r \in RunIds |-> [status |-> "none"]]
    /\ results = <<>>
    /\ waiterPc = [r \in RunIds |-> "none"]
    /\ batchPc = [r \in RunIds |-> "none"]
    /\ idx = [r \in RunIds |-> 0]
    /\ passedTests = [r \in RunIds |-> 0]
    /\ failedTests = [r \in RunIds |-> 0]
    /\ done = [r \in RunIds |-> 0]
    /\ execLog = [r \in RunIds |-> <<>>]
    /\ crashed = FALSE
    /\ InitExecOff
    /\ InitEvalOff
    /\ InitCurlOff

NextConcurrent ==
    \E r \in RunIds :
        \/ StartCreate(r)
        \/ StartCreateFail(r)
        \/ StartFindFew(r)
        \/ StartFindFail(r)
        \/ StartSave(r)
        \/ StartSaveFail(r)
        \/ StartLaunch(r)
        \/ StartReturn(r)
        \/ WaiterSpawn(r)
        \/ WaiterDone(r)
        \/ WaiterTimeout(r)
        \/ BatchEmpty(r)
        \/ BatchBegin(r)
        \/ BatchParseFail(r)
        \/ BatchCall(r)
        \/ BatchReturn(r)
        \/ BatchPanic(r)
        \/ BatchRecover(r)
        \/ BatchFinish(r)
        \/ BatchSend(r)

SpecConcurrent == InitConcurrent /\ [][NextConcurrent]_vars

(***************************************************************************)
(* Vocabulary of the properties.                                           *)
(***************************************************************************)
\* the rows of test_results that belong to run r, in insertion order
RunResults(r) == SelectSeq(results, LAMBDA x : x.run = r)

\* executeTests has returned
BatchOver(r) == batchPc[r] \in {"send", "done"}

\* the 5-minute ceiling fired for run r
TimedOut(r) == waiterPc[r] = "timedout"

\* a panic was raised in the loop of run r
PanicRaised(r) == \E i \in 1..Len(execLog[r]) : execLog[r][i].outcome = "panic"

\* the number of iterations of run r that came to one of the outcomes
CountOutcomes(r, outcomes) ==
    Cardinality({i \in 1..Len(execLog[r]) : execLog[r][i].outcome \in outcomes})

\* the run row is in a terminal status
Terminal(r) == row[r].status \in {"completed", "failed"}

(***************************************************************************)
(* C1.  Once the status of a run has left "running", no later step changes *)
(* its status, its passed and failed counts or its execution time; in      *)
(* particular the detached batch finishing after the timeout does not      *)
(* overwrite the row.  (The claim also covers completed-at, which every    *)
(* write of the row sets anew.)  The code does not keep this: the final    *)
(* Updates of executeTests is unconditional.                               *)
(***************************************************************************)
C1_TerminalRowImmutable ==
    [][\A r \in RunIds :
          Terminal(r) =>
              /\ row'[r].status = row[r].status
              /\ row'[r].passed = row[r].passed
              /\ row'[r].failed = row[r].failed
              /\ row'[r].executionTime = row[r].executionTime]_vars

(***************************************************************************)
(* C2.  As stated in the claim: once the ceiling has fired and until the   *)
(* batch itself writes the row, the run is failed with total, passed and   *)
(* failed all zero.  Refuted: total keeps the number of test cases.        *)
(***************************************************************************)
C2_TimeoutZeroesAllCounts ==
    \A r \in RunIds :
        TimedOut(r) /\ ~BatchOver(r) =>
            /\ row[r].status = "failed"
            /\ row[r].total = 0
            /\ row[r].passed = 0
            /\ row[r].failed = 0

(***************************************************************************)
(* C2, amended.  The step of the waiting goroutine that takes the timeout  *)
(* branch sets the run to failed with passed = failed = 0 and execution    *)
(* time 0, and leaves total at the number of test cases saved before.      *)
(***************************************************************************)
C2_TimeoutForcesFailedKeepsTotal ==
    [][\A r \in RunIds :
          waiterPc[r] = "select" /\ waiterPc'[r] = "timedout" =>
              /\ row'[r].status = "failed"
              /\ row'[r].passed = 0
              /\ row'[r].failed = 0
              /\ row'[r].executionTime = "0"
              /\ row'[r].total = row[r].total
              /\ row'[r].total = Len(cases[r])]_vars

\* the ceiling fired on a run of at least one test case, before the batch ended
C2_Witness ==
    \E r \in RunIds :
        /\ TimedOut(r) /\ ~BatchOver(r)
        /\ row[r].total > 0
        /\ row[r].status = "failed" /\ row[r].passed = 0 /\ row[r].failed = 0

(***************************************************************************)
(* C3.  A batch of n >= 1 test cases that ends with neither a panic nor a  *)
(* timeout leaves the run completed iff every test case passed and failed  *)
(* iff one failed, with passed_tests the number of PASSED results,         *)
(* failed_tests the number of failed ones (unparseable specifications      *)
(* included) and passed + failed = total = n.                              *)
(***************************************************************************)
C3_NormalCompletionCounts ==
    \A r \in RunIds :
        BatchOver(r) /\ Len(cases[r]) >= 1 /\ ~PanicRaised(r) /\ ~TimedOut(r) =>
            LET nPassed == CountOutcomes(r, {"PASSED"})
                nFailed == CountOutcomes(r, {"FAILED", "parse_error"})
            IN /\ row[r].status = "completed" <=> nFailed = 0
               /\ row[r].status = "failed" <=> nFailed > 0
               /\ row[r].passed = nPassed
               /\ row[r].failed = nFailed
               /\ row[r].total = Len(cases[r])
               /\ row[r].passed + row[r].failed = row[r].total

\* a batch of two or more test cases completed with every test passed, and
\* another outcome is a failed run that counts both kinds
C3_Witness ==
    \E r \in RunIds :
        /\ batchPc[r] = "done" /\ waiterPc[r] = "finished" /\ ~PanicRaised(r)
        /\ Len(cases[r]) = 3
        /\ row[r].status = "failed" /\ row[r].passed = 1 /\ row[r].failed = 2

(***************************************************************************)
(* C4.  An execution error in one test case (the transport call fails, or  *)
(* the status is >= 400) is recorded as a failed TestResult of that test   *)
(* case and goes no further: once the batch is over, every test case of    *)
(* the slice has its TestResult and, unless the ceiling fired, the counts  *)
(* of the run cover them all.  The code does not keep this for a transport *)
(* failure, which panics inside ExecuteTest.                               *)
(***************************************************************************)
C4_ExecutionErrorRecordedBatchGoesOn ==
    \A r \in RunIds :
        \A i \in 1..Len(execLog[r]) :
            execLog[r][i].call \in {"transport_error", "http_error"} =>
                /\ execLog[r][i].outcome = "FAILED"
                /\ \E j \in 1..Len(RunResults(r)) :
                      /\ RunResults(r)[j].case = execLog[r][i].case
                      /\ RunResults(r)[j].status = "failed"
                /\ BatchOver(r) =>
                      /\ Len(RunResults(r)) = Len(cases[r])
                      /\ ~TimedOut(r) =>
                            row[r].passed + row[r].failed = Len(cases[r])

(***************************************************************************)
(* C5.  A test case whose stored specification does not parse gets a       *)
(* failed TestResult carrying the parse error, with no HTTP call and no    *)
(* assertion evaluated, and the loop goes on to the next test case; three  *)
(* test cases of which only the second does not parse and the others pass  *)
(* end as total = 3, passed = 2, failed = 1.                               *)
(***************************************************************************)
C5_ParseFailureRecordedBatchGoesOn ==
    \A r \in RunIds :
        /\ \A i \in 1..Len(execLog[r]) :
              execLog[r][i].outcome = "parse_error" =>
                  /\ execLog[r][i].call = "none"
                  /\ execLog[r][i].evaluated = 0
                  /\ i <= Len(RunResults(r))
                  /\ RunResults(r)[i].case = execLog[r][i].case
                  /\ RunResults(r)[i].status = "failed"
                  /\ RunResults(r)[i].errorMessage = MsgParseError
                  \* the loop went on: another iteration, or the normal end
                  /\ BatchOver(r) /\ ~PanicRaised(r) => Len(execLog[r]) = Len(cases[r])
                  /\ i < Len(cases[r]) /\ batchPc[r] = "loop" /\ idx[r] = i =>
                        ENABLED (BatchCall(r) \/ BatchParseFail(r))
        /\ ( /\ BatchOver(r) /\ ~TimedOut(r)
             /\ Len(execLog[r]) = 3
             /\ execLog[r][1].outcome = "PASSED"
             /\ execLog[r][2].outcome = "parse_error"
             /\ execLog[r][3].outcome = "PASSED" )
           => row[r].total = 3 /\ row[r].passed = 2 /\ row[r].failed = 1

\* the three-case run of the claim, over
C5_Witness ==
    \E r \in RunIds :
        /\ batchPc[r] = "done" /\ ~TimedOut(r)
        /\ Len(cases[r]) = 3 /\ Len(execLog[r]) = 3
        /\ cases[r][1].parses /\ ~cases[r][2].parses /\ cases[r][3].parses
        /\ execLog[r][2].outcome = "parse_error"
        /\ execLog[r][2].call = "none"
        /\ row[r].total = 3 /\ row[r].passed = 2 /\ row[r].failed = 1
        /\ Len(RunResults(r)) = 3

SubsetResolved(r) == callerPc[r] \in {"found", "saved", "launched", "returned"}

C7_EmptyRunHandedBackFailed ==
    \A r \in RunIds :
        SubsetResolved(r) /\ Len(cases[r]) = 0 =>
            /\ execLog[r] = <<>>
            /\ RunResults(r) = <<>>
            /\ callerPc[r] = "returned" =>
                  /\ returned[r].status = "failed"
                  /\ returned[r].total = 0
                  /\ returned[r].passed = 0
                  /\ returned[r].failed = 0

(***************************************************************************)
(* C7, amended.  When the test-case subset is empty, it is the batch       *)
(* goroutine that sets the run to failed with total, passed and failed all *)
(* zero, making no HTTP call and recording no TestResult; the run          *)
(* StartTestRun hands back still has status "running", and so has the row  *)
(* until the batch (or the timeout) has written it.                        *)
(***************************************************************************)
C7_EmptyRunFailedByBatch ==
    \A r \in RunIds :
        SubsetResolved(r) /\ Len(cases[r]) = 0 =>
            /\ execLog[r] = <<>>
            /\ RunResults(r) = <<>>
            /\ callerPc[r] = "returned" =>
                  returned[r].status = "running" /\ returned[r].total = 0
            /\ BatchOver(r) =>
                  /\ row[r].status = "failed"
                  /\ row[r].total = 0
                  /\ row[r].passed = 0
                  /\ row[r].failed = 0
            /\ ~BatchOver(r) /\ ~TimedOut(r) => row[r].status = "running"

\* StartTestRun has handed back a running run whose row the batch has failed
C7_Witness ==
    \E r \in RunIds :
        /\ callerPc[r] = "returned" /\ Len(cases[r]) = 0
        /\ returned[r].status = "running"
        /\ batchPc[r] = "done" /\ waiterPc[r] = "finished"
        /\ row[r].status = "failed" /\ row[r].total = 0
        /\ row[r].completedAt = "empty"

(***************************************************************************)
(* C8.  Within a run the test cases are executed one at a time in the      *)
(* order of the slice: the i-th iteration is on the i-th test case, the    *)
(* call of test case i+1 is made only when the TestResult of test case i   *)
(* is recorded, and the TestResults of the run are in the slice's order.   *)
(***************************************************************************)
C8_SequentialInOrder ==
    \A r \in RunIds :
        /\ \A i \in 1..Len(execLog[r]) : execLog[r][i].case = i
        /\ \A i \in 1..Len(RunResults(r)) : RunResults(r)[i].case = i
        /\ Len(RunResults(r)) <= Len(cases[r])
        \* a call in flight: every earlier test case has its result, no later one
        /\ batchPc[r] = "exec" =>
              /\ Len(RunResults(r)) = Len(execLog[r]) - 1
              /\ execLog[r][Len(execLog[r])].outcome = "pending"
        \* at most one call is in flight, and it is the last one started
        /\ \A i \in 1..Len(execLog[r]) :
              execLog[r][i].outcome = "pending" =>
                  i = Len(execLog[r]) /\ batchPc[r] = "exec"

\* the third test case is being executed with the first two results recorded
C8_Witness ==
    \E r \in RunIds :
        /\ batchPc[r] = "exec"
        /\ Len(execLog[r]) = 3
        /\ Len(RunResults(r)) = 2
        /\ RunResults(r)[1].case = 1 /\ RunResults(r)[2].case = 2

(***************************************************************************)
(* Vocabulary of the properties of ExecuteTest.                            *)
(***************************************************************************)
\* the round trip yielded a response with a status below 400
AnsweredBelow400 == xResp.transport = "ok" /\ xResp.status < 400

AnsweredFrom400 == xResp.transport = "ok" /\ xResp.status >= 400

\* an evaluated assertion has passed = false
SomeAssertionFailed ==
    \E i \in 1..Len(xOut.assertionResults) : ~xOut.assertionResults[i].passed

(***************************************************************************)
(* C9.  When the response status is >= 400, ExecuteTest returns FAILED     *)
(* with the execution-level message naming the status and an empty list of *)
(* assertion results, whatever the assertions are, a status_code assertion *)
(* expecting that very status included.                                    *)
(***************************************************************************)
C9_Status400ShortCircuits ==
    xPc # "ready" /\ AnsweredFrom400 =>
        /\ xPc = "returned"
        /\ xOut.status = "FAILED"
        /\ xOut.errorMessage = MsgHTTPFailed(xResp.status)
        /\ xOut.assertionResults = <<>>

\* status 404 answered to a specification that expects status 404
C9_Witness ==
    /\ xPc = "returned"
    /\ xResp.transport = "ok" /\ xResp.status = 404
    /\ ~xSpec.nilAssertions
    /\ xSpec.assertions = <<AssertionSpec("status_code", <<>>, "", JNum(404))>>
    /\ xOut.status = "FAILED"
    /\ xOut.assertionResults = <<>>

(***************************************************************************)
(* C10.  As stated in the claim: when the status is below 400, the status  *)
(* ExecuteTest returns is FAILED iff an evaluated assertion has            *)
(* passed = false.  Refuted: a specification whose assertion list is nil   *)
(* comes back FAILED ("No assertions found") with no assertion evaluated.  *)
(***************************************************************************)
C10_FailedIffSomeAssertionFailed ==
    xPc = "returned" /\ AnsweredBelow400 =>
        (xOut.status = "FAILED" <=> SomeAssertionFailed)

(***************************************************************************)
(* C10, amended.  When the status is below 400 and ExecuteTest returns,    *)
(* the status is FAILED iff an evaluated assertion has passed = false or   *)
(* the assertion list of the specification is nil (then the message is     *)
(* "No assertions found" and nothing is evaluated); a specification with   *)
(* an empty list, or whose assertions all pass, yields PASSED.             *)
(***************************************************************************)
C10_FailedIffAssertionFailedOrNilList ==
    xPc = "returned" /\ AnsweredBelow400 =>
        /\ xOut.status = "FAILED" <=> (SomeAssertionFailed \/ xSpec.nilAssertions)
        /\ xOut.status \in {"PASSED", "FAILED"}
        /\ xSpec.nilAssertions =>
              xOut.errorMessage = MsgNoAssertions /\ xOut.assertionResults = <<>>
        /\ ~xSpec.nilAssertions /\ xSpec.assertions = <<>> => xOut.status = "PASSED"

\* a failing assertion followed by a passing one: FAILED
C10_Witness ==
    /\ xPc = "returned" /\ AnsweredBelow400
    /\ Len(xOut.assertionResults) = 2
    /\ ~xOut.assertionResults[1].passed
    /\ xOut.assertionResults[2].passed
    /\ xOut.status = "FAILED"

(***************************************************************************)
(* C11.  Every TestResult ExecuteTest returns carries a measured duration  *)
(* and the serialized response envelope, also when the test failed and     *)
(* also when it failed because the status was 400 or above.  Refuted: the  *)
(* branch for a status of 400 or above returns before ResponseData is      *)
(* assigned, so that result carries the duration and an empty              *)
(* ResponseData.                                                           *)
(***************************************************************************)
C11_DurationAndEnvelopeAlways ==
    xPc = "returned" =>
        /\ xOut.duration = "measured"
        /\ xOut.responseData = EnvelopeData(xResp)

\* the i-th assertion of the specification is a status_code assertion whose
\* expected status is not the one answered (the 200-accepts-201 pair aside)
ExpectsOtherStatus(i) ==
    LET a == xSpec.assertions[i]
    IN /\ a.type = "status_code"
       /\ a.expected.k = "num"
       /\ a.expected.n # xResp.status
       /\ ~(a.expected.n = 200 /\ xResp.status = 201)

(***************************************************************************)
(* C12.  A specification in the documented form, with an assertion         *)
(* {"type": "status_code", "expected": E}, verifies the status: when the   *)
(* status answered is below 400 and is not E (expected 200 with actual 201 *)
(* aside), ExecuteTest returns FAILED with a failing result for that       *)
(* assertion.  Refuted: executeAssertion reads the key "value", which the  *)
(* map made from an AssertionSpec never has, so the comparison is skipped  *)
(* and the assertion result stays passed.                                  *)
(***************************************************************************)
C12_DocumentedStatusCodeVerified ==
    xPc = "returned" /\ AnsweredBelow400 /\ ~xSpec.nilAssertions =>
        \A i \in 1..Len(xSpec.assertions) :
            ExpectsOtherStatus(i) =>
                /\ xOut.status = "FAILED"
                /\ \E j \in 1..Len(xOut.assertionResults) :
                      /\ xOut.assertionResults[j].type = "status_code"
                      /\ ~xOut.assertionResults[j].passed

ResolvedInEnvelope == GjsonGet(Envelope(eResp), NormalizePath(eMap.path))

(***************************************************************************)
(* C14.  An exists assertion passes iff its path resolves to a defined     *)
(* value: it fails when the path is absent from the envelope and when the  *)
(* path is present with an explicit JSON null.  Refuted: Result.Exists()   *)
(* is true for a matched null, so the assertion passes on it.              *)
(***************************************************************************)
C14_ExistsFailsOnAbsentOrNull ==
    ePc = "returned" /\ eMap.type = "exists" /\ "path" \in DOMAIN eMap =>
        (eOut.res.passed <=>
            (ResolvedInEnvelope.exists /\ ResolvedInEnvelope.v.k # "null"))

\* the value the i-th assertion's path resolves to in the envelope (nil when
\* nothing is there)
ResolvedForAssertion(i) ==
    ResultValue(GjsonGet(Envelope(xResp), NormalizePath(xSpec.assertions[i].path)))

\* every assertion of the specification is an equals assertion on a path
\* that is not one of the header paths ExecuteTest passes over
OnlyEqualsAssertions ==
    /\ ~xSpec.nilAssertions
    /\ \A i \in 1..Len(xSpec.assertions) :
          /\ xSpec.assertions[i].type = "equals"
          /\ xSpec.assertions[i].path # <<>>
          /\ ~IsHeaderPath(AssertionMap(xSpec.assertions[i]))

(***************************************************************************)
(* C15.  An equals assertion passes iff the value resolved at its path is  *)
(* deeply and type-sensitively equal to the expected value, for every kind *)
(* of expected value; when the values differ the assertion fails with a    *)
(* message, it neither passes nor crashes.  Refuted: the evaluator reads   *)
(* the expected value under the key "value", which the map made from an    *)
(* AssertionSpec never has, so nothing is compared and the result stays    *)
(* passed (and when a "value" does arrive and both sides are arrays or     *)
(* both objects, Go's == on the two interface values panics).              *)
(***************************************************************************)
C15_EqualsPassesIffDeeplyEqual ==
    xPc # "ready" /\ AnsweredBelow400 /\ xResp.json /\ OnlyEqualsAssertions =>
        /\ xPc = "returned"
        /\ Len(xOut.assertionResults) = Len(xSpec.assertions)
        /\ \A i \in 1..Len(xSpec.assertions) :
              /\ xOut.assertionResults[i].passed <=>
                    ResolvedForAssertion(i) = xSpec.assertions[i].expected
              /\ ~xOut.assertionResults[i].passed =>
                    xOut.assertionResults[i].message # NoMsg

\* sub occurs in s as a run of consecutive characters
IsSubstring(sub, s) ==
    \E i \in 0..(Len(s) - Len(sub)) : SubSeq(s, i + 1, i + Len(sub)) = sub

\* the specification holds one json_path assertion with matcher contains
\* and a string expected
OneContainsAssertion ==
    /\ ~xSpec.nilAssertions
    /\ Len(xSpec.assertions) = 1
    /\ xSpec.assertions[1].type = "json_path"
    /\ xSpec.assertions[1].matcher = "contains"
    /\ xSpec.assertions[1].path # <<>>
    /\ xSpec.assertions[1].expected.k = "str"

\* the string form of what that assertion's path resolves to in the body
ResolvedStringInBody ==
    ResultString(IF xResp.body.k = "null" THEN NotFound
                 ELSE GjsonGet(xResp.body, xSpec.assertions[1].path))

(***************************************************************************)
(* C16.  A json_path assertion with matcher contains passes iff the        *)
(* expected string is a substring of the string form of the value resolved *)
(* in the body, so also when the resolved string strictly contains it.     *)
(* Refuted: the evaluator compares the two strings with ==, so "xy"        *)
(* against expected "x" fails.                                             *)
(***************************************************************************)
C16_ContainsIsSubstring ==
    xPc # "ready" /\ AnsweredBelow400 /\ xResp.json /\ OneContainsAssertion =>
        /\ xPc = "returned"
        /\ Len(xOut.assertionResults) = 1
        /\ xOut.assertionResults[1].passed <=>
              IsSubstring(xSpec.assertions[1].expected.s, ResolvedStringInBody)

\* every '[' of the path is closed by a ']' before the next '[' or the end,
\* and no ']' stands alone
RECURSIVE WellBracketed(_, _)
WellBracketed(p, open) ==
    IF p = <<>> THEN ~open
    ELSE IF p[1] = "[" THEN ~open /\ WellBracketed(Tail(p), TRUE)
    ELSE IF p[1] = "]" THEN open /\ WellBracketed(Tail(p), FALSE)
    ELSE WellBracketed(Tail(p), open)

\* the path with every group '[i]' turned into '.i'
RECURSIVE GroupsToDots(_)
GroupsToDots(p) ==
    IF p = <<>> THEN <<>>
    ELSE IF p[1] = "[" /\ \E j \in 2..Len(p) : p[j] = "]"
    THEN LET close == CHOOSE j \in 2..Len(p) :
                          p[j] = "]" /\ \A h \in 2..(j - 1) : p[h] # "]"
         IN <<".">> \o SubSeq(p, 2, close - 1)
                    \o GroupsToDots(SubSeq(p, close + 1, Len(p)))
    ELSE <<p[1]>> \o GroupsToDots(Tail(p))

(***************************************************************************)
(* C20.  The path an exists or equals assertion resolves is a function of  *)
(* the path given: a path that starts with '[' (and whose brackets pair    *)
(* up) has every '[i]' turned into '.i' and 'body' put in front, a path    *)
(* that does not start with '[' is left as it is, and normalizing the      *)
(* normalized path again gives it back unchanged.                          *)
(***************************************************************************)
C20_PathNormalization ==
    ePc = "returned" /\ eMap.type \in {"exists", "equals"} /\ "path" \in DOMAIN eMap =>
        LET given == eMap.path
            used == eOut.res.path
        IN /\ (given # <<>> /\ given[1] = "[" /\ WellBracketed(given, FALSE))
                 => used = KeyBody \o GroupsToDots(given)
           /\ (given = <<>> \/ given[1] # "[") => used = given
           /\ NormalizePath(used) = used
           /\ used = NormalizePath(given)

\* "[0].id" became "body.0.id"
C20_Witness ==
    /\ ePc = "returned"
    /\ eMap.type = "equals"
    /\ "path" \in DOMAIN eMap
    /\ eMap.path = <<"[", "0", "]", ".", "i", "d">>
    /\ eOut.res.path = <<"b", "o", "d", "y", ".", "0", ".", "i", "d">>

(***************************************************************************)
(* Vocabulary of the properties of the Command Parser: the command as the  *)
(* sequence of its tokens, quotes taken off, and the part each token plays *)
(* (a flag that takes an argument makes the next token its argument).      *)
(***************************************************************************)
CmdTokens ==
    LET tokens == Tokenize(NormalizeCommand(curlIn))
    IN [i \in 1..Len(tokens) |-> stripQuotes(tokens[i])]

ArgFlags ==
    FlagsMethod \cup FlagsHeader \cup FlagsData \cup FlagsForm \cup FlagsUser
    \cup FlagsCookie

\* the methods the command gives with -X/--request, in order, as written
\* in upper case
RECURSIVE MethodsGiven(_, _)
MethodsGiven(tokens, i) ==
    IF i > Len(tokens) THEN <<>>
    ELSE IF tokens[i] \in FlagsMethod /\ i < Len(tokens)
    THEN <<ToUpper(tokens[i + 1])>> \o MethodsGiven(tokens, i + 2)
    ELSE IF tokens[i] \in ArgFlags THEN MethodsGiven(tokens, i + 2)
    ELSE MethodsGiven(tokens, i + 1)

\* a data or form flag has an argument in the command
RECURSIVE DataGiven(_, _)
DataGiven(tokens, i) ==
    IF i > Len(tokens) THEN FALSE
    ELSE IF tokens[i] \in FlagsData \cup FlagsForm /\ i < Len(tokens) THEN TRUE
    ELSE IF tokens[i] \in ArgFlags THEN DataGiven(tokens, i + 2)
    ELSE DataGiven(tokens, i + 1)

\* the URL the command names: the last token that is neither a flag nor a
\* flag's argument and has the form of a URL (<<>> when there is none)
RECURSIVE URLGiven(_, _, _)
URLGiven(tokens, i, found) ==
    IF i > Len(tokens) THEN found
    ELSE IF tokens[i] \in ArgFlags THEN URLGiven(tokens, i + 2, found)
    ELSE URLGiven(tokens, i + 1,
             IF URLOfToken(tokens[i]) # <<>> THEN URLOfToken(tokens[i]) ELSE found)

\* the text between the first '?' of a URL and its '#'
QueryText(u) ==
    LET hash == IndexOf(u, "#")
        noFrag == IF hash = 0 THEN u ELSE SubSeq(u, 1, hash - 1)
        mark == IndexOf(noFrag, "?")
    IN IF mark = 0 THEN <<>> ELSE From(noFrag, mark + 1)

\* the names of the parameters of a query text: what stands before the '='
\* of every '&'-separated part, escapes decoded where they are valid
RECURSIVE ParameterNames(_)
ParameterNames(query) ==
    IF query = <<>> THEN {}
    ELSE LET amp == IndexOf(query, "&")
             pair == IF amp = 0 THEN query ELSE SubSeq(query, 1, amp - 1)
             rest == IF amp = 0 THEN <<>> ELSE From(query, amp + 1)
             eq == IndexOf(pair, "=")
             name == IF eq = 0 THEN pair ELSE SubSeq(pair, 1, eq - 1)
         IN (IF name = <<>> THEN {}
             ELSE IF UnescapeFails(name, "query") THEN {name}
             ELSE {Unescape(name, "query")})
            \cup ParameterNames(rest)

(***************************************************************************)
(* C17.  A data or form flag makes the method POST only when no method was *)
(* given: for every accepted command that holds -X/--request M the parsed  *)
(* method is M, whatever the order of the method flag and the data or form *)
(* flags, M = GET included.  Refuted: the parser tells "no method given"   *)
(* by the method still being GET, so -X GET followed by a data flag ends   *)
(* as POST.                                                                *)
(***************************************************************************)
C17_ExplicitMethodKept ==
    curlPc = "returned" /\ curlOut.kind = "ok" =>
        LET given == MethodsGiven(CmdTokens, 1)
        IN given # <<>> => curlOut.result.method = given[Len(given)]

(***************************************************************************)
(* C18.  For every command the parser accepts: the URL returned starts     *)
(* with http:// or https:// and holds no query string, every query         *)
(* parameter of the URL the command names is a key of the query-parameter  *)
(* map, and every path variable recorded has the empty value.  Refuted:    *)
(* a parameter whose part of the query holds ';' (or a bad escape) is      *)
(* dropped by URL.Query(), and the URL is rebuilt from the decoded path,   *)
(* so an escaped '?' of the path comes back as a '?' in the URL.           *)
(***************************************************************************)
C18_URLAbsoluteQueryMoved ==
    curlPc = "returned" /\ curlOut.kind = "ok" =>
        LET result == curlOut.result
        IN /\ HasPrefix(result.url, <<"h", "t", "t", "p", ":", "/", "/">>) \/ HasPrefix(result.url, <<"h", "t", "t", "p", "s", ":", "/", "/">>)
           /\ ~Contains(result.url, <<"?">>)
           /\ ParameterNames(QueryText(URLGiven(CmdTokens, 1, <<>>)))
                 \subseteq DOMAIN result.queryParams
           /\ \A name \in DOMAIN result.pathVariables :
                 result.pathVariables[name] = <<>>

\* no token of the command has the form of a URL
NoTokenTakenAsURL ==
    \A i \in 1..Len(CmdTokens) : URLOfToken(CmdTokens[i]) = <<>>

\* the last token is a flag that takes an argument
FlagLacksArgument ==
    Len(CmdTokens) > 0 /\ CmdTokens[Len(CmdTokens)] \in ArgFlags

\* a header flag is followed by a token without a colon
HeaderLacksColon ==
    \E i \in 1..(Len(CmdTokens) - 1) :
        CmdTokens[i] \in FlagsHeader /\ IndexOf(CmdTokens[i + 1], ":") = 0

MissingArgumentErrors ==
    {ErrMissingMethod, ErrMissingHeader, ErrMissingData, ErrMissingForm,
     ErrMissingCredentials, ErrMissingCookie}

(***************************************************************************)
(* C19.  ParseCurlCommand never panics and never returns a partial result  *)
(* with an error.  The empty command gives the "empty" error; a command    *)
(* with tokens of which none is taken as a URL, no flag lacking its        *)
(* argument and no header without a colon gives the "no URL" error; a      *)
(* missing argument and a header without a colon give errors of their own. *)
(* Refuted: a token that is one quote character makes stripQuotes slice    *)
(* s[1:0], a run-time panic.                                               *)
(***************************************************************************)
C19_NoURLIsAnErrorNeverAPanic ==
    curlPc # "ready" =>
        /\ curlPc = "returned"
        /\ curlOut.kind = "error" => curlOut.result = NoResult /\ curlOut.err # NoErr
        /\ curlOut.kind = "ok" => curlOut.err = NoErr
        /\ curlIn = <<>> => curlOut = ParseError(ErrEmpty)
        /\ (Len(CmdTokens) > 0 /\ NoTokenTakenAsURL /\ ~FlagLacksArgument
              /\ ~HeaderLacksColon) => curlOut = ParseError(ErrNoURL)
        /\ curlOut.err \in MissingArgumentErrors => FlagLacksArgument
        /\ curlOut.err.e = "invalid header format: %s" => HeaderLacksColon

(***************************************************************************)
(* C21.  When evaluated assertions of a test fail, the error message of    *)
(* the TestResult that ExecuteTest returns is the message of the last      *)
(* failing assertion in declaration order, and the status is FAILED: a     *)
(* passing assertion evaluated after a failing one neither clears the      *)
(* message nor sets the status back to PASSED.                             *)
(***************************************************************************)
\* the places of the failed results in the list ExecuteTest returned
FailedResults ==
    {i \in 1..Len(xOut.assertionResults) : ~xOut.assertionResults[i].passed}

C21_LastFailingMessageKept ==
    (xPc = "returned" /\ FailedResults # {}) =>
        LET last == CHOOSE i \in FailedResults : \A j \in FailedResults : j <= i
        IN /\ xOut.status = "FAILED"
           /\ xOut.errorMessage = xOut.assertionResults[last].message

\* two assertions failed with different messages
C21_Witness ==
    /\ xPc = "returned"
    /\ Len(xOut.assertionResults) = 2
    /\ FailedResults = {1, 2}
    /\ xOut.assertionResults[1].message # xOut.assertionResults[2].message

(***************************************************************************)
(* C22.  A failing assertion never stops the evaluation of the assertions  *)
(* after it: when the HTTP call is answered with a status below 400,       *)
(* ExecuteTest returns exactly one AssertionResult for each assertion of   *)
(* the specification that is not a header-path assertion, in declaration   *)
(* order, whatever number of them fail.  (Stated for answers with a JSON   *)
(* body, the ones whose assertions get evaluated.)  The code does not keep *)
(* this: an assertion whose evaluation panics ends the call, and no        *)
(* AssertionResult at all is returned.                                     *)
(***************************************************************************)
\* the assertions of the specification that are not header-path assertions
NonHeaderAssertions ==
    SelectSeq(xSpec.assertions, LAMBDA a : ~IsHeaderPath(AssertionMap(a)))

\* the HTTP call of ExecuteTest was answered below 400 with a JSON body
AnsweredJSONBelow400 ==
    xPc # "ready" /\ xResp.transport = "ok" /\ xResp.json /\ xResp.status < 400

C22_OneResultPerAssertion ==
    AnsweredJSONBelow400 =>
        /\ xPc = "returned"
        /\ Len(xOut.assertionResults) = Len(NonHeaderAssertions)
        /\ \A i \in 1..Len(NonHeaderAssertions) :
              xOut.assertionResults[i].type = NonHeaderAssertions[i].type

(***************************************************************************)
(* C23.  An assertion whose path is exactly "headers" or                   *)
(* "headers.Content-Type" is skipped by ExecuteTest, whatever its type and *)
(* expected value: it produces no AssertionResult and leaves the status    *)
(* and the error message of the test as they are.  The call comes to what  *)
(* it comes to on the specification without these assertions (the same     *)
(* TestResult, or a panic in both cases), and no AssertionResult carries   *)
(* one of the two paths.                                                   *)
(***************************************************************************)
OnHeaderPath(a) == a.path = PathHeaders \/ a.path = PathHeadersContentType

WithoutHeaderAssertions == SelectSeq(xSpec.assertions, LAMBDA a : ~OnHeaderPath(a))

C23_HeaderAssertionsSkipped ==
    (xPc # "ready" /\ ~xSpec.nilAssertions) =>
        /\ xOut = ExecuteTest(TestSpec(WithoutHeaderAssertions), xResp)
        /\ \A i \in 1..Len(xOut.assertionResults) :
              ~OnHeaderPath(xOut.assertionResults[i])

\* a header-path assertion that would panic if evaluated stands before an
\* assertion that fails
C23_Witness ==
    /\ xPc = "returned"
    /\ Len(xSpec.assertions) = 2
    /\ xSpec.assertions[1].path = PathHeaders
    /\ xSpec.assertions[1].type = "json_path"
    /\ Len(xOut.assertionResults) = 1
    /\ ~xOut.assertionResults[1].passed
    /\ xOut.status = "FAILED"

(***************************************************************************)
(* C24.  In the command parser every non-flag token of the bare form       *)
(* host:port, for any host (example.com:8080/path), is taken as the target *)
(* URL with "http://" put in front, as is every token that starts with     *)
(* http:// or https://: a command that holds such a token is never         *)
(* answered with the "no URL" error, and when it is accepted its URL is    *)
(* the one the last such token stands for (up to its query string).  The   *)
(* code does not keep this: of the bare forms only those that start with   *)
(* "localhost:" or "127.0.0.1:" are recognised.                            *)
(***************************************************************************)
\* a host name, a colon and a port that starts with a digit
BareHostPort(token) ==
    LET colon == IndexOf(token, ":")
    IN /\ colon > 1
       /\ colon < Len(token)
       /\ token[colon + 1] \in Digits
       /\ \A k \in 1..(colon - 1) : token[k] \in AlphaNumeric \cup {".", "-"}
       /\ token[1] # "-"

\* the URL the claim has a token stand for, <<>> for a token it does not
\* take as a URL
URLClaimed(token) ==
    IF HasPrefix(token, <<"h", "t", "t", "p", ":", "/", "/">>) \/ HasPrefix(token, <<"h", "t", "t", "p", "s", ":", "/", "/">>)
    THEN token
    ELSE IF BareHostPort(token) THEN <<"h", "t", "t", "p", ":", "/", "/">> \o token
    ELSE <<>>

\* the URL of the last non-flag token the claim takes as a URL
RECURSIVE TargetClaimed(_, _, _)
TargetClaimed(tokens, i, found) ==
    IF i > Len(tokens) THEN found
    ELSE IF tokens[i] \in ArgFlags THEN TargetClaimed(tokens, i + 2, found)
    ELSE TargetClaimed(tokens, i + 1,
             IF URLClaimed(tokens[i]) # <<>> THEN URLClaimed(tokens[i]) ELSE found)

\* a URL without its query string
UpToQuery(u) ==
    LET mark == IndexOf(u, "?")
    IN IF mark = 0 THEN u ELSE SubSeq(u, 1, mark - 1)

C24_BareHostPortTakenAsURL ==
    curlPc = "returned" =>
        LET target == TargetClaimed(CmdTokens, 1, <<>>)
        IN target # <<>> =>
              /\ curlOut # ParseError(ErrNoURL)
              /\ (curlOut.kind = "ok" /\ ~Contains(target, <<"%">>))
                    => curlOut.result.url = UpToQuery(target)

(***************************************************************************)
(* C25.  In every reachable state of a run, passed_tests + failed_tests    *)
(* <= total_tests, the number of TestResult rows stored for the run is at  *)
(* most total_tests, and there is at most one row for each test case       *)
(* supplied; this holds on the timeout path, on the panic path and when    *)
(* the detached batch finishes late.                                       *)
(***************************************************************************)
C25_CountsWithinTotal ==
    \A r \in RunIds :
        row[r].status # "none" =>
            LET rows == RunResults(r)
            IN /\ row[r].passed + row[r].failed <= row[r].total
               /\ Len(rows) <= row[r].total
               /\ \A i \in 1..Len(rows) : rows[i].case \in 1..Len(cases[r])
               /\ \A i, j \in 1..Len(rows) : rows[i].case = rows[j].case => i = j

\* the ceiling fired and the detached batch finished late, with a row for
\* every test case and counts that add up to the total
C25_Witness ==
    \E r \in RunIds :
        /\ TimedOut(r)
        /\ batchPc[r] = "done"
        /\ row[r].completedAt = "batch"
        /\ row[r].total = MaxCases
        /\ Len(RunResults(r)) = row[r].total
        /\ row[r].passed + row[r].failed = row[r].total
        /\ row[r].passed > 0 /\ row[r].failed > 0

(***************************************************************************)
(* C26.  Every run for which StartTestRun returned successfully leaves the *)
(* status "running" in the end (it reaches "completed" or "failed"), under *)
(* a fair scheduler, a timer that fires and database writes that succeed,  *)
(* even when the HTTP call of a test case never returns.                   *)
(***************************************************************************)
C26_RunLeavesRunning ==
    \A r \in RunIds : (callerPc[r] = "returned") ~> Terminal(r)

\* the call of a test case is still in flight when the ceiling has fired
\* and the run has been set to failed
C26_Witness ==
    \E r \in RunIds :
        /\ callerPc[r] = "returned"
        /\ batchPc[r] = "exec"
        /\ TimedOut(r)
        /\ row[r].status = "failed"

(***************************************************************************)
(* C27.  The batch goroutine never blocks when it signals completion.  The *)
(* completion channel has capacity one and gets one send per run: it never *)
(* holds more than one value and is empty whenever the batch is about to   *)
(* send.  So once executeTests has returned -- after a recovered panic as  *)
(* well, and also when the ceiling has fired and the waiting goroutine is  *)
(* gone -- the batch goroutine sends and terminates.                       *)
(***************************************************************************)
\* the channel has room whenever the batch is at its send
ChannelHasRoom ==
    \A r \in RunIds :
        /\ done[r] \in {0, 1}
        /\ batchPc[r] = "send" => done[r] = 0
        /\ done[r] = 1 => batchPc[r] = "done"

C27_CompletionSendNeverBlocks ==
    /\ []ChannelHasRoom
    /\ \A r \in RunIds : (batchPc[r] \in {"send", "panicked"}) ~> (batchPc[r] = "done")

\* the ceiling fired, the batch recovered from a panic later on and its send
\* stays in the channel
C27_Witness ==
    \E r \in RunIds :
        /\ TimedOut(r)
        /\ PanicRaised(r)
        /\ batchPc[r] = "done"
        /\ done[r] = 1

(***************************************************************************)
(* C28.  Runs started concurrently do not interfere.  Every update the     *)
(* batch, the panic recovery or the timeout path of a run makes goes to    *)
(* the row of that run, and every TestResult it records carries that run's *)
(* id: a step changes the row and the TestResults of no run other than the *)
(* one that takes it, and the TestResults of a run are rows for its own    *)
(* test cases.                                                             *)
(***************************************************************************)
\* the step is taken by StartTestRun, the waiter or the batch of run r
StepOf(r) ==
    <<callerPc[r], waiterPc[r], batchPc[r], idx[r]>>'
        # <<callerPc[r], waiterPc[r], batchPc[r], idx[r]>>

\* the step leaves the run row and the TestResults of run r as they are
Untouched(r) == row'[r] = row[r] /\ RunResults(r)' = RunResults(r)

C28_RunsDoNotInterfere ==
    [][ /\ \A r \in RunIds : ~StepOf(r) => Untouched(r)
        /\ Len(results') > Len(results) =>
              /\ Len(results') = Len(results) + 1
              /\ \E r \in RunIds :
                    /\ results'[Len(results')].run = r
                    /\ StepOf(r)
                    /\ results'[Len(results')].case \in 1..Len(cases[r]) ]_vars

\* both runs are over, one completed and one failed, each with a TestResult
\* of its own, the failed one recorded first
C28_Witness ==
    /\ batchPc["run1"] = "done" /\ batchPc["run2"] = "done"
    /\ row["run1"].status = "completed"
    /\ row["run2"].status = "failed"
    /\ row["run2"].failed = 1
    /\ Len(results) = 2
    /\ results[1].run = "run2" /\ results[2].run = "run1"

(***************************************************************************)
(* C29.  If retrieving the test cases or saving the total count fails      *)
(* after the run record has been created, StartTestRun returns an error    *)
(* and starts neither the batch nor the timer: the run record already      *)
(* stored stays in status "running" and no later action ever moves it to a *)
(* terminal status.  (A call that has returned an error takes no further   *)
(* step, so the property is one of every state it is in from then on.)     *)
(***************************************************************************)
\* StartTestRun returned an error after db.Create had stored the run
FailedAfterCreate(r) == callerPc[r] = "error" /\ row[r].status # "none"

C29_FailedStartLeavesRunRunning ==
    \A r \in RunIds :
        FailedAfterCreate(r) =>
            /\ row[r].status = "running"
            /\ row[r].passed = 0 /\ row[r].failed = 0
            /\ returned[r].status = "none"
            /\ waiterPc[r] = "none"
            /\ batchPc[r] = "none"
            /\ RunResults(r) = <<>>

\* one call failed at the save after its run was stored; the other run,
\* started alongside, is over
C29_Witness ==
    \E r, q \in RunIds :
        /\ FailedAfterCreate(r)
        /\ local[r].total > 0
        /\ row[r].total = 0
        /\ batchPc[q] = "done"
        /\ Terminal(q)

(***************************************************************************)
(* C30.  A json_path assertion that has a path and no matcher is not       *)
(* reported as a failed assertion: evaluating it panics inside the         *)
(* executor.  Inside a batch the panic is caught only at the run boundary: *)
(* the test case gets no TestResult, the assertions and the test cases     *)
(* after it are not executed, and the run is forced to "failed" with       *)
(* passed and failed counts zero.                                          *)
(***************************************************************************)
\* the i-th iteration of run r is on a specification with a json_path
\* assertion without matcher and its HTTP call was answered below 400
EvaluatesNoMatcher(r, i) ==
    LET case == execLog[r][i].case
    IN /\ cases[r][case].parses
       /\ cases[r][case].testSpec = SpecNoMatcher
       /\ execLog[r][i].call = "ok"

C30_MissingMatcherPanicsRunForcedFailed ==
    \A r \in RunIds :
        \A i \in 1..Len(execLog[r]) :
            EvaluatesNoMatcher(r, i) =>
                /\ execLog[r][i].outcome = "panic"
                /\ execLog[r][i].evaluated = 0
                /\ i = Len(execLog[r])
                /\ batchPc[r] \in {"panicked", "send", "done"}
                /\ \A k \in 1..Len(RunResults(r)) :
                      RunResults(r)[k].case < execLog[r][i].case
                /\ BatchOver(r) =>
                      /\ row[r].status = "failed"
                      /\ row[r].passed = 0 /\ row[r].failed = 0

\* the second of three test cases holds the assertion: the first one passed
\* and has its TestResult, the third one was never run, the run is failed
\* with zero counts
C30_Witness ==
    \E r \in RunIds :
        /\ Len(cases[r]) = 3
        /\ Len(execLog[r]) = 2
        /\ EvaluatesNoMatcher(r, 2)
        /\ batchPc[r] = "done"
        /\ Len(RunResults(r)) = 1
        /\ RunResults(r)[1].status = "passed"
        /\ row[r].status = "failed"
        /\ row[r].passed = 0 /\ row[r].failed = 0

====
